---- MODULE Spec2Model ----
(***************************************************************************)
(* A model of the dijon rhythm-analysis core: dynamic-programming beat     *)
(* tracking, meter inference and bar/beat labelling, metric chroma         *)
(* aggregation and the tail of the novelty functions.                      *)
(*                                                                         *)
(* Conventions.                                                            *)
(*  - numpy arrays are functions on 0..len-1, so the source's indices are  *)
(*    kept as they are.                                                    *)
(*  - real values are fixed-point integers in thousandths ("milli"): a     *)
(*    novelty value of 1.0 is 1000, a penalty of -1.0 is -1000.            *)
(*  - every subsystem has its own specification (SpecBeats, ...); the      *)
(*    variables of the other subsystems are parked at a fixed value.       *)
(***************************************************************************)
EXTENDS Integers, Sequences, FiniteSets, TLC

\* ------------------------------------------------------------------ bounds
MaxN == 5
MaxBeatRef == 3
MaxBeatTime == 5
MaxLenY == 6
SampleRate == 1
MaxFrames == 4
MaxSignalLen == 4
MaxTempogramEntries == 1
MaxOnDemand == 1
MaxFiles == 2
NoveltyFileLen == 3

\* ------------------------------------------------------- program constants
FS_NOV == 100
FS_TARGET_DEFAULT == 100
BPM_THRESHOLD_DEFAULT == 180

VARIABLES
    \* ---- beat tracker (beats/tracking.py, pipeline/beats.py)
    bt_pc,          \* position in compute_beat_sequence / run_beats
    bt_input,       \* the novelty curve passed in (0-based function)
    beat_ref,       \* reference beat period, in novelty frames
    factor,         \* penalty scale factor
    novelty,        \* the curve after the leading 0.0 is prepended (line 24)
    penalty,        \* penalty array times factor (line 22)
    D,              \* accumulated score
    P,              \* backpointers, 0 = no predecessor
    n,              \* forward-loop index
    B,              \* backtracking buffer
    k,              \* backtracking position
    bt_result,      \* the returned beat indices, as a sequence
    rb_item,        \* run_beats: status of the item
    rb_written,     \* run_beats: the beat times written (milliseconds)
    \* ---- meter classifier and labeller (beats/meter.py)
    mt_pc,          \* position in run_beats_and_bars / estimate / label
    beat_times,     \* the beat times passed in (0-based array, time ticks)
    head_in,        \* head-in anchor time (ticks)
    override,       \* beats_per_bar_override, 0 = None
    low_norm,       \* per-beat low-band energy after normalisation
    high_norm,      \* per-beat high-band energy after normalisation
    cand,           \* position in the candidates list
    best_score,     \* best score so far: <<numerator, denominator>> or NegInf
    best_B,         \* best candidate so far
    est_returned,   \* the value estimate_beats_per_bar returned, 0 = none yet
    beats_per_bar,  \* the B handed to label_bars_and_beats
    i0,             \* index of the beat nearest the head-in time
    li,             \* label-loop index
    labels,         \* the label records <<time, bar_number, beat_number>>
    \* ---- metric chroma aggregator (chromagram/methods.py)
    cc_pc,              \* position in metric_chromagram_mvp
    len_y,              \* len(y), in samples
    meter_times,        \* meter_map[:, 0], as sample positions (time * sr)
    hop_length,
    bpm_threshold,
    min_frames_per_bin,
    accent_mode,
    aggregate,
    weight_power,
    raw_weights,        \* what librosa's rms / onset_strength gives, units of 1e-10
    C,                  \* one pitch-class row of the frame chroma
    frame_weights,      \* the weights of weighted aggregation
    cc_beat_times,      \* beat boundaries after auto-padding (samples)
    boundary_frames,
    cj,                 \* bin-loop index j
    C_metric,           \* the bins computed so far: <<numerator, denominator, frames>>
    cc_error,           \* the ValueError raised, "" = none
    cc_result,          \* the chromagram returned, <<>> before the return
    \* ---- novelty functions, from the per-frame feature on (novelty/methods.py)
    nv_pc,          \* position in compute_novelty_<method>
    nv_method,      \* "energy", "spectrum", "phase" or "complex"
    nv_frames,      \* the per-frame feature of one frequency bin (see NvCompute)
    nv_M,           \* local-average half-width, 0 disables
    nv_norm,        \* the norm flag
    Fs_feature,     \* native feature rate Fs / H
    Fs_target,      \* target feature rate, 0 = None
    nv_vals,        \* the curve: numerators over the common denominator nv_den
    nv_den,
    nv_divided,     \* whether the curve was divided by its maximum
    nv_native_len,  \* length of the curve before resampling
    \* ---- widget session caches (notebooks/scratch/widget)
    wc_x,               \* the session's signal, one feature value per sample
    wc_started,         \* whether the session's first call has been made
    novelty_cache,      \* key -> [nov, nov_100]
    tempogram_cache,    \* key -> local autocorrelation matrix
    wc_call,            \* the arguments of the last lookup
    wc_hit,             \* whether the last lookup found its key
    wc_computed,        \* whether the last lookup ran a computation
    wc_ret,             \* the value the last lookup returned
    \* ---- batch stages (pipeline/novelty.py, pipeline/tempogram.py)
    pl_pc,          \* position in the call
    pl_fn,          \* "run_novelty", "run_tempogram" or "_compute_novelty"
    pl_ntype,       \* the type name passed in
    pl_N,           \* window length after the defaults are filled in
    pl_H,           \* hop length after the defaults are filled in
    pl_theta,       \* <<theta_min, theta_max>>
    pl_files,       \* per input path, whether the file exists
    pl_dry_run,
    pl_i,           \* loop position in the paths
    pl_reads,       \* input files loaded
    pl_computes,    \* calls of a compute function
    pl_writes,      \* output files saved
    pl_succeeded,
    pl_failed,
    pl_result,      \* the dict returned
    \* ---- reference tempo of run_beats (pipeline/tempogram.py, pipeline/beats.py)
    rf_pc,          \* position: run_tempogram saves, run_beats loads and derives
    tg_type,        \* the tempogram type run_tempogram was called with
    tg_theta,       \* <<theta_min, theta_max>> of run_tempogram: the file's tempo axis
    tg_fourier,     \* the magnitudes on that axis, rows = tempi, columns = frames
    tg_file,        \* the array saved by run_tempogram
    rf_theta,       \* <<theta_min, theta_max>> of run_beats
    rf_tempo_bpm,   \* tempo_bpm of run_beats line 128
    rf_beat_ref,    \* beat_ref of run_beats line 129
    \* ---- manifest.csv (utils/_manifest.py)
    mf_profile,     \* the profile the manifest is kept under
    mf_exists,      \* whether manifest.csv exists
    mf_rows,        \* the data rows of the file, field values as written
    mf_dup,         \* whether the last call named a unique value a row already had
    mf_outcome,     \* "none", "ok" or "ValueError"
    mf_before,      \* <<mf_exists, mf_rows>> as they were before the last call
    \* ---- ingest of the YouTube source (pipeline/ingest/youtube.py)
    ig_bundles,             \* the bundles of the acquisition directory, by info_json name
    raw_manifest,           \* the rows of the raw manifest
    raw_files,              \* the raw directory: file_id -> content of <file_id>.mp3
    ig_pc,                  \* "idle" between runs, "loop" inside the bundle loop
    ig_dry_run,
    ig_month,               \* the YYMM of datetime.now(UTC)
    ig_i,                   \* loop position in info_json_files
    processed_acq_sha256,
    ig_start_shas,          \* ingested_acq_sha256 as read at the start of the run
    ingested_count,
    skipped_count,
    failed_count,
    ig_outcomes,            \* the status of each bundle of the run so far
    ig_real_runs,           \* completed runs with dry_run=False
    ig_runs,                \* completed runs
    \* ---- acquire of the YouTube source (pipeline/acquire/youtube.py)
    aq_bundles,             \* the bundles of the acquisition directory, by info_json name
    aq_content,             \* the directory's files: name -> content
    aq_exists,              \* whether the acquisition manifest exists
    aq_rows,                \* its data rows, field values as written
    aq_pc,                  \* "idle" between runs, "loop" inside the bundle loop
    aq_i,                   \* loop position in info_json_files
    existing_by_rel_path,
    aq_rows_added,          \* rows_added of the run
    aq_errors,              \* len(errors) of the run
    aq_result,              \* what the last completed run returned
    aq_settled,             \* the last run succeeded and the directory is as it was then
    aq_rerun,               \* aq_settled as it was when the current run started
    aq_runs,                \* completed runs
    aq_mods,                \* changes made to the directory between runs
    \* ---- marker ordering (reaper/markers_session.py, reaper/marker_names.py)
    om_pc,          \* "call" before _order_markers_in_entry, "done" after
    om_entry,       \* the entry passed in: [markers, count]
    om_result,      \* the entry returned, <<>> before the return
    \* ---- create_markers_session (reaper/markers_session.py)
    ss_files,       \* the file system: path name -> content record, Absent when there is no file
    ss_ext,         \* the extension of the audio file
    ss_dry_run,     \* the dry_run argument of the last call
    ss_outcome,     \* "none" before the first call, then "returned" or the exception raised
    ss_before,      \* the file system when the last call started
    ss_calls,       \* the number of calls made
    \* ---- _compute_novelty_batch_shared_stft, step by step (widget_novelty.py)
    gr_x,           \* the signal
    gr_pc,          \* the index of the next step of the sweep
    gr_returned,    \* eager_compute_novelty has returned
    gr_X,           \* the local X: the STFT last computed
    gr_nov_base,    \* the local nov_base: the curve before local averaging
    gr_cache,       \* novelty_cache: key -> the value stored
    gr_stft_count,  \* (N, H) -> the number of librosa.stft calls made with it
    gr_par,         \* the cache filled cell by cell in an arbitrary order
    \* ---- read_markers (reaper/markers_session.py)
    rm_rpp,         \* the .RPP files: path -> the file, NoRpp when there is none
    rm_json,        \* the markers JSON file of the audio file
    rm_clock,       \* datetime.now() of the last call
    rm_path,        \* the rpp_file argument of the last call
    rm_new,         \* new_entry["markers"] of the last call
    rm_outcome,     \* "none" after an edit, "returned" or the exception after a call
    rm_before_json, \* the JSON file when the last call started
    rm_before_rpp   \* the .RPP files when the last call started

beatsVars == <<bt_pc, bt_input, beat_ref, factor, novelty, penalty, D, P, n, B, k,
               bt_result, rb_item, rb_written>>

meterVars == <<mt_pc, beat_times, head_in, override, low_norm, high_norm, cand,
               best_score, best_B, est_returned, beats_per_bar, i0, li, labels>>

chromaVars == <<cc_pc, len_y, meter_times, hop_length, bpm_threshold,
                min_frames_per_bin, accent_mode, aggregate, weight_power, raw_weights,
                C, frame_weights, cc_beat_times, boundary_frames, cj, C_metric,
                cc_error, cc_result>>

noveltyVars == <<nv_pc, nv_method, nv_frames, nv_M, nv_norm, Fs_feature, Fs_target,
                 nv_vals, nv_den, nv_divided, nv_native_len>>

cacheVars == <<wc_x, wc_started, novelty_cache, tempogram_cache, wc_call, wc_hit,
               wc_computed, wc_ret>>

pipelineVars == <<pl_pc, pl_fn, pl_ntype, pl_N, pl_H, pl_theta, pl_files, pl_dry_run,
                  pl_i, pl_reads, pl_computes, pl_writes, pl_succeeded, pl_failed,
                  pl_result>>

beatRefVars == <<rf_pc, tg_type, tg_theta, tg_fourier, tg_file, rf_theta, rf_tempo_bpm,
                 rf_beat_ref>>

manifestVars == <<mf_profile, mf_exists, mf_rows, mf_dup, mf_outcome, mf_before>>

ingestVars == <<ig_bundles, raw_manifest, raw_files, ig_pc, ig_dry_run, ig_month, ig_i,
                processed_acq_sha256, ig_start_shas, ingested_count, skipped_count,
                failed_count, ig_outcomes, ig_real_runs, ig_runs>>

acquireVars == <<aq_bundles, aq_content, aq_exists, aq_rows, aq_pc, aq_i,
                 existing_by_rel_path, aq_rows_added, aq_errors, aq_result, aq_settled,
                 aq_rerun, aq_runs, aq_mods>>

orderVars == <<om_pc, om_entry, om_result>>

sessionVars == <<ss_files, ss_ext, ss_dry_run, ss_outcome, ss_before, ss_calls>>

gridVars == <<gr_x, gr_pc, gr_returned, gr_X, gr_nov_base, gr_cache, gr_stft_count, gr_par>>

historyVars == <<rm_rpp, rm_json, rm_clock, rm_path, rm_new, rm_outcome,
                 rm_before_json, rm_before_rpp>>

vars == <<beatsVars, meterVars, chromaVars, noveltyVars, cacheVars, pipelineVars,
          beatRefVars, manifestVars,
          ingestVars,
          acquireVars,
          orderVars,
          sessionVars,
          gridVars,
          historyVars>>

\* the variables a subsystem's steps leave alone
notBeats == <<meterVars, chromaVars, noveltyVars, cacheVars, pipelineVars, beatRefVars,
    manifestVars,
    ingestVars,
    acquireVars,
    orderVars,
    sessionVars,
    gridVars,
    historyVars>>
notMeter == <<beatsVars, chromaVars, noveltyVars, cacheVars, pipelineVars, beatRefVars,
    manifestVars,
    ingestVars,
    acquireVars,
    orderVars,
    sessionVars,
    gridVars,
    historyVars>>
notChroma == <<beatsVars, meterVars, noveltyVars, cacheVars, pipelineVars, beatRefVars,
    manifestVars,
    ingestVars,
    acquireVars,
    orderVars,
    sessionVars,
    gridVars,
    historyVars>>
notNovelty == <<beatsVars, meterVars, chromaVars, cacheVars, pipelineVars, beatRefVars,
    manifestVars,
    ingestVars,
    acquireVars,
    orderVars,
    sessionVars,
    gridVars,
    historyVars>>
notCache == <<beatsVars, meterVars, chromaVars, noveltyVars, pipelineVars, beatRefVars,
    manifestVars,
    ingestVars,
    acquireVars,
    orderVars,
    sessionVars,
    gridVars,
    historyVars>>
notPipeline == <<beatsVars, meterVars, chromaVars, noveltyVars, cacheVars, beatRefVars,
    manifestVars,
    ingestVars,
    acquireVars,
    orderVars,
    sessionVars,
    gridVars,
    historyVars>>
notBeatRef == <<beatsVars, meterVars, chromaVars, noveltyVars, cacheVars, pipelineVars,
    manifestVars,
    ingestVars,
    acquireVars,
    orderVars,
    sessionVars,
    gridVars,
    historyVars>>
notManifest == <<beatsVars, meterVars, chromaVars, noveltyVars, cacheVars, pipelineVars,
    beatRefVars,
    ingestVars,
    acquireVars,
    orderVars,
    sessionVars,
    gridVars,
    historyVars>>
notIngest == <<beatsVars, meterVars, chromaVars, noveltyVars, cacheVars, pipelineVars,
    beatRefVars, manifestVars,
    acquireVars,
    orderVars,
    sessionVars,
    gridVars,
    historyVars>>
notAcquire == <<beatsVars, meterVars, chromaVars, noveltyVars, cacheVars, pipelineVars,
    beatRefVars, manifestVars, ingestVars,
    orderVars,
    sessionVars,
    gridVars,
    historyVars>>
notOrder == <<beatsVars, meterVars, chromaVars, noveltyVars, cacheVars, pipelineVars,
    beatRefVars, manifestVars, ingestVars, acquireVars,
    sessionVars,
    gridVars,
    historyVars>>
notSession == <<beatsVars, meterVars, chromaVars, noveltyVars, cacheVars, pipelineVars,
    beatRefVars, manifestVars, ingestVars, acquireVars, orderVars,
    gridVars,
    historyVars>>
notGrid == <<beatsVars, meterVars, chromaVars, noveltyVars, cacheVars, pipelineVars,
    beatRefVars, manifestVars, ingestVars, acquireVars, orderVars, sessionVars,
    historyVars>>
notHistory == <<beatsVars, meterVars, chromaVars, noveltyVars, cacheVars, pipelineVars,
    beatRefVars, manifestVars, ingestVars, acquireVars, orderVars, sessionVars,
    gridVars>>

\* ----------------------------------------------------------- array helpers
ArrLen(a) == Cardinality(DOMAIN a)

Zeros(len) == [i \in 0..(len - 1) |-> 0]

\* np.concatenate((np.array([0.0]), a))
PrependZero(a) == [i \in 0..ArrLen(a) |-> IF i = 0 THEN 0 ELSE a[i - 1]]

\* np.max over a non-empty array: a left-to-right scan
RECURSIVE NpMaxUpTo(_, _)
NpMaxUpTo(a, i) ==
    IF i = 0 THEN a[0]
    ELSE LET rest == NpMaxUpTo(a, i - 1) IN IF a[i] > rest THEN a[i] ELSE rest

NpMax(a) == NpMaxUpTo(a, ArrLen(a) - 1)

\* np.argmax: the index of the first occurrence of the maximum
RECURSIVE NpArgmaxFrom(_, _, _)
NpArgmaxFrom(a, i, best) ==
    IF i >= ArrLen(a) THEN best
    ELSE NpArgmaxFrom(a, i + 1, IF a[i] > a[best] THEN i ELSE best)

\* the index of the last occurrence of the maximum
NpArgmax_Last(a) ==
    CHOOSE i \in DOMAIN a : /\ \A j \in DOMAIN a : a[j] <= a[i]
                            /\ \A j \in DOMAIN a : j > i => a[j] < a[i]

NpArgmax(a) == NpArgmaxFrom(a, 1, 0)

\* All 0-based arrays of the given length over a set of values
ArraysOf(S, len) == [0..(len - 1) -> S]

\* ------------------------------------------------------------ beat tracker
\* 1000 * log2(x) for x = 1..16, rounded: the fixed-point np.log2
Log2Milli ==
    <<0, 1000, 1585, 2000, 2322, 2585, 2807, 3000,
      3170, 3322, 3459, 3585, 3700, 3807, 3907, 4000>>

\* log2(delta / ref): t = np.arange(1, N) / beat_ref; np.log2(t)
Log2Ratio_NoRef(delta, ref) == Log2Milli[delta]

Log2Ratio(delta, ref) == Log2Milli[delta] - Log2Milli[ref]

\* compute_penalty(N, beat_ref): [0.0] followed by -(log2(delta/beat_ref))^2
\* for delta = 1..N-1, in milli
compute_penalty(N, ref) ==
    [delta \in 0..(IF N >= 1 THEN N - 1 ELSE 0) |->
        IF delta = 0 THEN 0
        ELSE -((Log2Ratio(delta, ref) * Log2Ratio(delta, ref)) \div 1000)]

\* scores = D[m_idx] + penalty[n - m_idx] for m_idx = 1..n-1 (0-based array)
Scores(Dv, pen, nn) == [j \in 0..(nn - 2) |-> Dv[j + 1] + pen[nn - (j + 1)]]

\* the test of line 33: no predecessor improves on starting fresh
StartsFresh_Strict(score_max) == score_max < 0

StartsFresh(score_max) == score_max <= 0

\* line 38: the backpointer, int(np.argmax(scores)) + 1: scores[j] is the
\* score of the predecessor m = j + 1
Predecessor_ZeroBased(scores) == NpArgmax(scores)

Predecessor(scores) == NpArgmax(scores) + 1

NoveltyValues == {0, 500, 1000}
Factors == {1, 2}

BeatsInit ==
    /\ bt_pc = "call"
    /\ bt_input \in UNION {ArraysOf(NoveltyValues, len) : len \in 0..MaxN}
    /\ beat_ref \in 1..MaxBeatRef
    /\ factor \in Factors
    /\ novelty = <<>>
    /\ penalty = <<>>
    /\ D = <<>>
    /\ P = <<>>
    /\ n = 0
    /\ B = <<>>
    /\ k = 0
    /\ bt_result = <<>>
    /\ rb_item = "pending"
    /\ rb_written = <<>>

\* lines 19-27: N, the penalty, the padded curve, D, P and D[1] = novelty[1].
\* With N = 0 the arrays have one entry and D[1] = novelty[1] raises IndexError.
BtSetup ==
    /\ bt_pc = "call"
    /\ LET N == ArrLen(bt_input)
           pen == compute_penalty(N, beat_ref)
           nov == PrependZero(bt_input)
       IN /\ penalty' = [d \in DOMAIN pen |-> pen[d] * factor]
          /\ novelty' = nov
          /\ P' = Zeros(N + 1)
          /\ IF N = 0
             THEN /\ D' = Zeros(N + 1)
                  /\ bt_pc' = "raised"
                  /\ n' = n
             ELSE /\ D' = [Zeros(N + 1) EXCEPT ![1] = nov[1]]
                  /\ bt_pc' = "forward"
                  /\ n' = 2
    /\ UNCHANGED <<bt_input, beat_ref, factor, B, k, bt_result, rb_item, rb_written>>
    /\ UNCHANGED notBeats

\* lines 29-38: one iteration of the forward pass
BtForwardStep ==
    /\ bt_pc = "forward"
    /\ n <= ArrLen(bt_input)
    /\ LET scores == Scores(D, penalty, n)
           score_max == NpMax(scores)
       IN IF StartsFresh(score_max)
          THEN /\ D' = [D EXCEPT ![n] = novelty[n]]
               /\ P' = [P EXCEPT ![n] = 0]
          ELSE /\ D' = [D EXCEPT ![n] = novelty[n] + score_max]
               /\ P' = [P EXCEPT ![n] = Predecessor(scores)]
    /\ n' = n + 1
    /\ UNCHANGED <<bt_pc, bt_input, beat_ref, factor, novelty, penalty, B, k,
                   bt_result, rb_item, rb_written>>
    /\ UNCHANGED notBeats

\* lines 40-42: the loop is over; start backtracking at argmax(D)
BtStartBacktrack ==
    /\ bt_pc = "forward"
    /\ n > ArrLen(bt_input)
    /\ B' = [Zeros(ArrLen(bt_input)) EXCEPT ![0] = NpArgmax(D)]
    /\ k' = 0
    /\ bt_pc' = "backtrack"
    /\ UNCHANGED <<bt_input, beat_ref, factor, novelty, penalty, D, P, n,
                   bt_result, rb_item, rb_written>>
    /\ UNCHANGED notBeats

\* lines 43-45: follow one backpointer
BtBacktrackStep ==
    /\ bt_pc = "backtrack"
    /\ P[B[k]] # 0
    /\ k' = k + 1
    /\ B' = [B EXCEPT ![k + 1] = P[B[k]]]
    /\ UNCHANGED <<bt_pc, bt_input, beat_ref, factor, novelty, penalty, D, P, n,
                   bt_result, rb_item, rb_written>>
    /\ UNCHANGED notBeats

\* lines 46-50: B[:k+1][::-1] - 1
BtReturn ==
    /\ bt_pc = "backtrack"
    /\ P[B[k]] = 0
    /\ bt_result' = [j \in 1..(k + 1) |-> B[k + 1 - j] - 1]
    /\ bt_pc' = "done"
    /\ UNCHANGED <<bt_input, beat_ref, factor, novelty, penalty, D, P, n, B, k,
                   rb_item, rb_written>>
    /\ UNCHANGED notBeats

\* run_beats lines 131-142: beat_times = B / FS_NOV is saved, the item succeeds
RbWrite ==
    /\ bt_pc = "done"
    /\ rb_item = "pending"
    /\ rb_written' = [j \in 1..Len(bt_result) |-> (bt_result[j] * 1000) \div FS_NOV]
    /\ rb_item' = "success"
    /\ UNCHANGED <<bt_pc, bt_input, beat_ref, factor, novelty, penalty, D, P, n, B, k,
                   bt_result>>
    /\ UNCHANGED notBeats

\* run_beats lines 143-146: an exception of the computation fails the item
RbFail ==
    /\ bt_pc = "raised"
    /\ rb_item = "pending"
    /\ rb_item' = "failed"
    /\ UNCHANGED <<bt_pc, bt_input, beat_ref, factor, novelty, penalty, D, P, n, B, k,
                   bt_result, rb_written>>
    /\ UNCHANGED notBeats

BeatsParked ==
    /\ bt_pc = "off"
    /\ bt_input = <<>>
    /\ beat_ref = 0
    /\ factor = 0
    /\ novelty = <<>>
    /\ penalty = <<>>
    /\ D = <<>>
    /\ P = <<>>
    /\ n = 0
    /\ B = <<>>
    /\ k = 0
    /\ bt_result = <<>>
    /\ rb_item = "off"
    /\ rb_written = <<>>

\* ------------------------------------------- meter classifier and labeller
\* candidates = [2, 3, 4]
Candidates == <<2, 3, 4>>

\* best_score = -np.inf
NegInf == "neg_inf"

Abs(x) == IF x < 0 THEN -x ELSE x

\* np.argmin: the index of the first occurrence of the minimum
RECURSIVE NpArgminFrom(_, _, _)
NpArgminFrom(a, i, best) ==
    IF i >= ArrLen(a) THEN best
    ELSE NpArgminFrom(a, i + 1, IF a[i] < a[best] THEN i ELSE best)

NpArgmin(a) == NpArgminFrom(a, 1, 0)

\* i0 = int(np.argmin(np.abs(b - t0)))
NearestBeat(b, t0) == NpArgmin([i \in DOMAIN b |-> Abs(b[i] - t0)])

\* a division that truncates toward zero, as C and Java integer division do,
\* and the remainder that goes with it
TruncDiv(a, b) == IF a >= 0 THEN a \div b ELSE -((-a) \div b)

TruncMod(a, b) == a - b * TruncDiv(a, b)

\* Python's k // B for B > 0: the floor of the quotient
PyFloorDiv(a, b) == a \div b

\* Python's k % B for B > 0: the remainder of the floor division, in 0..B-1
PyMod(a, b) == a % b

\* the sum of f over the indices in S
RECURSIVE SumOver(_, _)
SumOver(f, S) ==
    IF S = {} THEN 0
    ELSE LET x == CHOOSE y \in S : TRUE IN f[x] + SumOver(f, S \ {x})

\* lines 72-80: the beats with pos == 0 and the others
DownbeatIdx(len, anchor, bpb) == {i \in 0..(len - 1) : PyMod(i - anchor, bpb) = 0}

OtherIdx(len, anchor, bpb) == {i \in 0..(len - 1) : PyMod(i - anchor, bpb) # 0}

\* lines 86-89: score = (mean(downbeat_low) - mean(other_low))
\*                    + (mean(other_high) - mean(downbeat_high)),
\* kept exact as <<numerator, denominator>> over the common denominator
CandidateScore(low, high, down, other) ==
    <<(SumOver(low, down) - SumOver(high, down)) * Cardinality(other)
        + (SumOver(high, other) - SumOver(low, other)) * Cardinality(down),
      Cardinality(down) * Cardinality(other)>>

\* line 91: score > best_score
ScoreGreater(score, best) ==
    IF best = NegInf THEN TRUE ELSE score[1] * best[2] > best[1] * score[2]

\* the strictly increasing array that lists the members of S
SortedArray(S) ==
    [i \in 0..(Cardinality(S) - 1) |->
        CHOOSE x \in S : Cardinality({y \in S : y < x}) = i]

OverrideValues == {0, 1, 2, 3, 4}

MeterInit ==
    /\ mt_pc = "call"
    /\ beat_times \in {SortedArray(S) : S \in SUBSET (0..(MaxBeatTime - 1))}
    /\ head_in \in 0..MaxBeatTime
    /\ override \in OverrideValues
    /\ low_norm \in ArraysOf({0, 1}, ArrLen(beat_times))
    /\ high_norm = [i \in DOMAIN low_norm |-> 1 - low_norm[i]]
    /\ cand = 0
    /\ best_score = NegInf
    /\ best_B = 0
    /\ est_returned = 0
    /\ beats_per_bar = 0
    /\ i0 = 0
    /\ li = 0
    /\ labels = <<>>

MeterParked ==
    /\ mt_pc = "off"
    /\ beat_times = <<>>
    /\ head_in = 0
    /\ override = 0
    /\ low_norm = <<>>
    /\ high_norm = <<>>
    /\ cand = 0
    /\ best_score = NegInf
    /\ best_B = 0
    /\ est_returned = 0
    /\ beats_per_bar = 0
    /\ i0 = 0
    /\ li = 0
    /\ labels = <<>>

\* run_beats_and_bars lines 48-54: with an override the labeller is called with
\* it; without one estimate_beats_per_bar is called first
MtCall ==
    /\ mt_pc = "call"
    /\ IF override # 0
       THEN /\ beats_per_bar' = override
            /\ mt_pc' = "label"
       ELSE /\ beats_per_bar' = beats_per_bar
            /\ mt_pc' = "estimate"
    /\ UNCHANGED <<beat_times, head_in, override, low_norm, high_norm, cand,
                   best_score, best_B, est_returned, i0, li, labels>>
    /\ UNCHANGED notMeter

\* estimate_beats_per_bar lines 53-65: i0, the energies, best_score = -inf and
\* best_B = 2. np.argmin of an empty array raises ValueError.
MtEstimateStart ==
    /\ mt_pc = "estimate"
    /\ IF ArrLen(beat_times) = 0
       THEN /\ mt_pc' = "raised"
            /\ UNCHANGED <<i0, cand, best_score, best_B>>
       ELSE /\ i0' = NearestBeat(beat_times, head_in)
            /\ cand' = 1
            /\ best_score' = NegInf
            /\ best_B' = 2
            /\ mt_pc' = "candidates"
    /\ UNCHANGED <<beat_times, head_in, override, low_norm, high_norm,
                   est_returned, beats_per_bar, li, labels>>
    /\ UNCHANGED notMeter

\* lines 67-93: one candidate B
MtCandidate ==
    /\ mt_pc = "candidates"
    /\ cand <= Len(Candidates)
    /\ LET bpb == Candidates[cand]
           down == DownbeatIdx(ArrLen(beat_times), i0, bpb)
           other == OtherIdx(ArrLen(beat_times), i0, bpb)
           score == CandidateScore(low_norm, high_norm, down, other)
       IN IF down = {} \/ other = {}
          THEN UNCHANGED <<best_score, best_B>>
          ELSE IF ScoreGreater(score, best_score)
               THEN /\ best_score' = score
                    /\ best_B' = bpb
               ELSE UNCHANGED <<best_score, best_B>>
    /\ cand' = cand + 1
    /\ UNCHANGED <<mt_pc, beat_times, head_in, override, low_norm, high_norm,
                   est_returned, beats_per_bar, i0, li, labels>>
    /\ UNCHANGED notMeter

\* line 95, then run_beats_and_bars line 55: best_B is returned and handed to
\* label_bars_and_beats
MtEstimateReturn ==
    /\ mt_pc = "candidates"
    /\ cand > Len(Candidates)
    /\ est_returned' = best_B
    /\ beats_per_bar' = best_B
    /\ mt_pc' = "label"
    /\ UNCHANGED <<beat_times, head_in, override, low_norm, high_norm, cand,
                   best_score, best_B, i0, li, labels>>
    /\ UNCHANGED notMeter

\* label_bars_and_beats lines 100-104; np.argmin of an empty array raises
MtLabelStart ==
    /\ mt_pc = "label"
    /\ IF ArrLen(beat_times) = 0
       THEN /\ mt_pc' = "raised"
            /\ UNCHANGED <<i0, li, labels>>
       ELSE /\ i0' = NearestBeat(beat_times, head_in)
            /\ li' = 0
            /\ labels' = <<>>
            /\ mt_pc' = "labelling"
    /\ UNCHANGED <<beat_times, head_in, override, low_norm, high_norm, cand,
                   best_score, best_B, est_returned, beats_per_bar>>
    /\ UNCHANGED notMeter

\* lines 105-109: one beat is labelled
MtLabelStep ==
    /\ mt_pc = "labelling"
    /\ li < ArrLen(beat_times)
    /\ LET kk == li - i0
           bar_number == 1 + PyFloorDiv(kk, beats_per_bar)
           beat_number == 1 + PyMod(kk, beats_per_bar)
       IN labels' = Append(labels, <<beat_times[li], bar_number, beat_number>>)
    /\ li' = li + 1
    /\ UNCHANGED <<mt_pc, beat_times, head_in, override, low_norm, high_norm, cand,
                   best_score, best_B, est_returned, beats_per_bar, i0>>
    /\ UNCHANGED notMeter

\* line 111
MtLabelReturn ==
    /\ mt_pc = "labelling"
    /\ li >= ArrLen(beat_times)
    /\ mt_pc' = "done"
    /\ UNCHANGED <<beat_times, head_in, override, low_norm, high_norm, cand,
                   best_score, best_B, est_returned, beats_per_bar, i0, li, labels>>
    /\ UNCHANGED notMeter

\* ------------------------------------------------ metric chroma aggregator
\* a sequence as a 0-based array
ToArr(seq) == [i \in 0..(Len(seq) - 1) |-> seq[i + 1]]

\* np.all(np.diff(a) > 0)
StrictlyIncreasing(a) == \A i \in 0..(ArrLen(a) - 2) : a[i + 1] - a[i] > 0

\* _extract_beat_times_from_meter_map lines 44-65, times in samples and the
\* duration len(y): <<TRUE, padded beat boundaries>> or <<FALSE, <<>>>> when a
\* ValueError is raised. The tolerance 1e-6 s is below one sample.
ExtractBeatTimes(mt, duration) ==
    IF ArrLen(mt) < 1 THEN <<FALSE, <<>>>>
    ELSE IF ~StrictlyIncreasing(mt) THEN <<FALSE, <<>>>>
    ELSE IF mt[0] < 0 \/ mt[ArrLen(mt) - 1] > duration THEN <<FALSE, <<>>>>
    ELSE LET asSeq == [i \in 1..ArrLen(mt) |-> mt[i - 1]]
             front == IF mt[0] > 0 THEN <<0>> \o asSeq ELSE asSeq
             both == IF front[Len(front)] < duration THEN front \o <<duration>> ELSE front
         IN IF Len(both) < 2 THEN <<FALSE, <<>>>>
            ELSE IF ~StrictlyIncreasing(ToArr(both)) THEN <<FALSE, <<>>>>
            ELSE <<TRUE, ToArr(both)>>

\* librosa's frame count with centred frames: 1 + len(y) // hop_length
NumFrames(len, hop) == 1 + (len \div hop)

\* line 128: subdiv = 4 if local_bpm <= bpm_threshold else 2, with
\* local_bpm = 60 / dur seconds = 60 * sr / dur samples
Subdiv_Strict(dur, sr, thr) == IF 60 * sr < thr * dur THEN 4 ELSE 2

Subdiv(dur, sr, thr) == IF 60 * sr <= thr * dur THEN 4 ELSE 2

\* _build_subdivision_boundaries lines 124-132; the boundary times are kept
\* exact in quarter samples (start + (k / subdiv) * dur, times 4)
RECURSIVE BuildBoundariesFrom(_, _, _, _)
BuildBoundariesFrom(bt, i, sr, thr) ==
    IF i >= ArrLen(bt) - 1 THEN <<>>
    ELSE LET dur == bt[i + 1] - bt[i]
             subdiv == Subdiv(dur, sr, thr)
             inner == [kk \in 1..(subdiv - 1) |-> 4 * bt[i] + kk * (4 \div subdiv) * dur]
         IN inner \o <<4 * bt[i + 1]>> \o BuildBoundariesFrom(bt, i + 1, sr, thr)

BuildSubdivisionBoundaries(bt, sr, thr) ==
    ToArr(<<4 * bt[0]>> \o BuildBoundariesFrom(bt, 0, sr, thr))

\* librosa.time_to_frames: floor((time * sr).astype(int) // hop_length), the
\* time given in quarter samples
TimeToFrames(quarter, hop) == (quarter \div 4) \div hop

\* line 223 with an off-by-one: a bin one frame short passes
BinTooShort_OffByOne(len, minFrames) == len < minFrames - 1

\* line 223: bin_lengths < min_frames_per_bin
BinTooShort(len, minFrames) == len < minFrames

\* the frames of the numpy slice s:t of an array of T frames
SliceFrames(s, t, T) == {f \in 0..(T - 1) : s <= f /\ f < t}

\* float64 power of a weight given in units of 1e-10: (w * 1e-10) ** p. For
\* w <= 10 units the value is at most 1e-9 ** p, which underflows to 0.0 once
\* 9 * p exceeds 324; otherwise the result is w ** p in units of 1e-10 ** p.
FloatPow(w, p) == IF 9 * p > 324 THEN 0 ELSE w ^ p

\* _compute_frame_weights line 107: np.maximum(weights, 1e-10) ** weight_power
ComputeFrameWeights(raw, p) ==
    [f \in DOMAIN raw |-> FloatPow(IF raw[f] > 1 THEN raw[f] ELSE 1, p)]

\* line 254 without the guard
ZeroWeight_NoGuard(W) == FALSE

\* line 254: W <= 0
ZeroWeight(W) == W <= 0

\* librosa.util.normalize(C, norm=1, axis=0) on the one row modelled: a non-zero
\* column becomes 1, a zero column stays 0
NormalizeL1(chroma) == [f \in DOMAIN chroma |-> IF chroma[f] > 0 THEN 1 ELSE 0]

\* the middle of a set of frames by value: np.median, times 2
MedianTimes2(chroma, frames) ==
    LET cnt == Cardinality(frames)
        rank(f) == Cardinality({g \in frames : chroma[g] < chroma[f] \/ (chroma[g] = chroma[f] /\ g < f)})
        at(r) == chroma[CHOOSE f \in frames : rank(f) = r]
    IN IF cnt % 2 = 1 THEN 2 * at(cnt \div 2) ELSE at(cnt \div 2 - 1) + at(cnt \div 2)

MinFramesValues == {0, 1, 2}
HopLengths == {1, 2}
BpmThresholds == {5, 20, BPM_THRESHOLD_DEFAULT}
AccentModes == {"preserve", "normalize", "weighted"}
Aggregates == {"mean", "median"}
WeightPowers == {1, 40}
MeterRowCounts == 0..2

\* frame chroma and raw frame weights come from librosa: two shapes of each
ChromaOf(T) == {[f \in 0..(T - 1) |-> 1], [f \in 0..(T - 1) |-> f % 3]}

RawWeightsOf(T) == {[f \in 0..(T - 1) |-> 0], [f \in 0..(T - 1) |-> 2 * (f % 2)]}

ChromaInit ==
    /\ cc_pc = "call"
    /\ len_y \in 0..MaxLenY
    /\ meter_times \in {SortedArray(S) :
                          S \in {X \in SUBSET (0..(len_y + 1)) : Cardinality(X) \in MeterRowCounts}}
    /\ hop_length \in HopLengths
    /\ bpm_threshold \in BpmThresholds
    /\ min_frames_per_bin \in MinFramesValues
    /\ accent_mode \in AccentModes
    /\ aggregate \in Aggregates
    /\ weight_power \in (IF accent_mode = "weighted" THEN WeightPowers ELSE {1})
    /\ raw_weights \in (IF accent_mode = "weighted"
                        THEN RawWeightsOf(NumFrames(len_y, hop_length))
                        ELSE {<<>>})
    /\ C = <<>>
    /\ frame_weights = <<>>
    /\ cc_beat_times = <<>>
    /\ boundary_frames = <<>>
    /\ cj = 0
    /\ C_metric = <<>>
    /\ cc_error = ""
    /\ cc_result = <<>>

ChromaParked ==
    /\ cc_pc = "off"
    /\ len_y = 0
    /\ meter_times = <<>>
    /\ hop_length = 0
    /\ bpm_threshold = 0
    /\ min_frames_per_bin = 0
    /\ accent_mode = ""
    /\ aggregate = ""
    /\ weight_power = 0
    /\ raw_weights = <<>>
    /\ C = <<>>
    /\ frame_weights = <<>>
    /\ cc_beat_times = <<>>
    /\ boundary_frames = <<>>
    /\ cj = 0
    /\ C_metric = <<>>
    /\ cc_error = ""
    /\ cc_result = <<>>

CcRaise(err) ==
    /\ cc_pc' = "raised"
    /\ cc_error' = err

\* lines 183-207: the parameter check, the audio check, the beat boundaries, the
\* frame chroma and the accent mode
CcPrepare ==
    /\ cc_pc = "call"
    /\ LET ext == ExtractBeatTimes(meter_times, len_y)
       IN IF min_frames_per_bin < 1
          THEN CcRaise("min_frames_per_bin") /\ UNCHANGED <<C, frame_weights, cc_beat_times>>
          ELSE IF len_y = 0
          THEN CcRaise("empty_audio") /\ UNCHANGED <<C, frame_weights, cc_beat_times>>
          ELSE IF ~ext[1]
          THEN CcRaise("meter_map") /\ UNCHANGED <<C, frame_weights, cc_beat_times>>
          ELSE /\ cc_beat_times' = ext[2]
               /\ \E chroma \in ChromaOf(NumFrames(len_y, hop_length)) :
                     C' = IF accent_mode = "normalize" THEN NormalizeL1(chroma) ELSE chroma
               /\ frame_weights' = IF accent_mode = "weighted"
                                   THEN ComputeFrameWeights(raw_weights, weight_power)
                                   ELSE <<>>
               /\ cc_pc' = "bins"
               /\ cc_error' = cc_error
    /\ UNCHANGED <<len_y, meter_times, hop_length, bpm_threshold, min_frames_per_bin,
                   accent_mode, aggregate, weight_power, raw_weights, boundary_frames,
                   cj, C_metric, cc_result>>
    /\ UNCHANGED notChroma

\* lines 209-235: the subdivision boundaries, their frames and the three checks
CcBins ==
    /\ cc_pc = "bins"
    /\ LET boundary_times == BuildSubdivisionBoundaries(cc_beat_times, SampleRate, bpm_threshold)
           frames == [i \in DOMAIN boundary_times |-> TimeToFrames(boundary_times[i], hop_length)]
           T == ArrLen(C)
           bin_lengths == [i \in 0..(ArrLen(frames) - 2) |-> frames[i + 1] - frames[i]]
       IN /\ boundary_frames' = frames
          /\ IF ~StrictlyIncreasing(frames)
             THEN CcRaise("collapsed")
             ELSE IF frames[ArrLen(frames) - 1] > T
             THEN CcRaise("beyond_chroma")
             ELSE IF \E i \in DOMAIN bin_lengths : BinTooShort(bin_lengths[i], min_frames_per_bin)
             THEN CcRaise("bin_too_short")
             ELSE /\ cc_pc' = "aggregate"
                  /\ cc_error' = cc_error
    /\ cj' = 0
    /\ C_metric' = <<>>
    /\ UNCHANGED <<len_y, meter_times, hop_length, bpm_threshold, min_frames_per_bin,
                   accent_mode, aggregate, weight_power, raw_weights, C, frame_weights,
                   cc_beat_times, cc_result>>
    /\ UNCHANGED notChroma

\* lines 237-242: one bin of the unweighted loop
CcBinPlain ==
    /\ cc_pc = "aggregate"
    /\ accent_mode # "weighted"
    /\ cj < ArrLen(boundary_frames) - 1
    /\ LET frames == SliceFrames(boundary_frames[cj], boundary_frames[cj + 1], ArrLen(C))
       IN C_metric' = Append(C_metric,
                             IF aggregate = "mean"
                             THEN <<SumOver(C, frames), Cardinality(frames), Cardinality(frames)>>
                             ELSE <<MedianTimes2(C, frames), 2, Cardinality(frames)>>)
    /\ cj' = cj + 1
    /\ UNCHANGED <<cc_pc, len_y, meter_times, hop_length, bpm_threshold, min_frames_per_bin,
                   accent_mode, aggregate, weight_power, raw_weights, C, frame_weights,
                   cc_beat_times, boundary_frames, cc_error, cc_result>>
    /\ UNCHANGED notChroma

\* line 243
CcReturnPlain ==
    /\ cc_pc = "aggregate"
    /\ accent_mode # "weighted"
    /\ cj >= ArrLen(boundary_frames) - 1
    /\ cc_result' = C_metric
    /\ cc_pc' = "done"
    /\ UNCHANGED <<len_y, meter_times, hop_length, bpm_threshold, min_frames_per_bin,
                   accent_mode, aggregate, weight_power, raw_weights, C, frame_weights,
                   cc_beat_times, boundary_frames, cj, C_metric, cc_error>>
    /\ UNCHANGED notChroma

\* lines 245-247: weighted aggregation takes the mean only
CcWeightedEnter ==
    /\ cc_pc = "aggregate"
    /\ accent_mode = "weighted"
    /\ IF aggregate # "mean"
       THEN CcRaise("aggregate")
       ELSE /\ cc_pc' = "weighted"
            /\ cc_error' = cc_error
    /\ UNCHANGED <<len_y, meter_times, hop_length, bpm_threshold, min_frames_per_bin,
                   accent_mode, aggregate, weight_power, raw_weights, C, frame_weights,
                   cc_beat_times, boundary_frames, cj, C_metric, cc_result>>
    /\ UNCHANGED notChroma

\* lines 249-256: one bin of the weighted loop
CcBinWeighted ==
    /\ cc_pc = "weighted"
    /\ cj < ArrLen(boundary_frames) - 1
    /\ LET frames == SliceFrames(boundary_frames[cj], boundary_frames[cj + 1], ArrLen(C))
           W == SumOver(frame_weights, frames)
           weighted == [f \in DOMAIN C |-> C[f] * frame_weights[f]]
       IN IF ZeroWeight(W)
          THEN /\ CcRaise("zero_weight")
               /\ UNCHANGED <<C_metric, cj>>
          ELSE /\ C_metric' = Append(C_metric, <<SumOver(weighted, frames), W, Cardinality(frames)>>)
               /\ cj' = cj + 1
               /\ UNCHANGED <<cc_pc, cc_error>>
    /\ UNCHANGED <<len_y, meter_times, hop_length, bpm_threshold, min_frames_per_bin,
                   accent_mode, aggregate, weight_power, raw_weights, C, frame_weights,
                   cc_beat_times, boundary_frames, cc_result>>
    /\ UNCHANGED notChroma

\* line 258
CcReturnWeighted ==
    /\ cc_pc = "weighted"
    /\ cj >= ArrLen(boundary_frames) - 1
    /\ cc_result' = C_metric
    /\ cc_pc' = "done"
    /\ UNCHANGED <<len_y, meter_times, hop_length, bpm_threshold, min_frames_per_bin,
                   accent_mode, aggregate, weight_power, raw_weights, C, frame_weights,
                   cc_beat_times, boundary_frames, cj, C_metric, cc_error>>
    /\ UNCHANGED notChroma

\* ------------------------------------------------------ novelty functions
\* np.diff of a 0-based array
NpDiff(a) == [i \in 0..(ArrLen(a) - 2) |-> a[i + 1] - a[i]]

\* a[a < 0] = 0
HalfWaveRectify(a) == [i \in DOMAIN a |-> IF a[i] < 0 THEN 0 ELSE a[i]]

\* np.concatenate((a, zeros(cnt)))
AppendZeros(a, cnt) ==
    [i \in 0..(ArrLen(a) + cnt - 1) |-> IF i < ArrLen(a) THEN a[i] ELSE 0]

\* _principal_argument, phases in thousandths of a cycle: mod(v + 0.5, 1) - 0.5
PrincipalArgument(v) == ((v + 500) % 1000) - 500

\* compute_novelty_energy lines 53-56: diff, trailing zero, half-wave rectify
EnergyCurve(energy_local) == HalfWaveRectify(AppendZeros(NpDiff(energy_local), 1))

\* compute_novelty_spectrum lines 94-97 on one frequency bin: diff in time,
\* half-wave rectify, trailing zero
SpectrumCurve(Y) == AppendZeros(HalfWaveRectify(NpDiff(Y)), 1)

\* compute_novelty_phase lines 148-151 on one frequency bin, the phase being
\* 250 thousandths of a cycle per input unit
PhaseCurve(frames) ==
    LET phase == [i \in DOMAIN frames |-> 250 * frames[i]]
        d1 == NpDiff(phase)
        phase_diff == [i \in DOMAIN d1 |-> PrincipalArgument(d1[i])]
        d2 == NpDiff(phase_diff)
        phase_diff2 == [i \in DOMAIN d2 |-> PrincipalArgument(d2[i])]
    IN AppendZeros([i \in DOMAIN phase_diff2 |-> Abs(phase_diff2[i])], 2)

\* compute_novelty_complex lines 206-224: zeros(T) with the gated residual sums
\* (the input, for frames 2..T-1) written to novelty_complex[2:]
ComplexCurve(R_plus) == [t \in DOMAIN R_plus |-> IF t < 2 THEN 0 ELSE R_plus[t]]

\* compute_local_average, times 2M+1: the sum of x[max(m-M,0) : min(m+M+1,L)]
LocalSum(x, m, M) ==
    SumOver(x, {i \in DOMAIN x : i >= (IF m - M > 0 THEN m - M ELSE 0) /\ i < m + M + 1})

\* novelty - local_average, then negative values to 0; numerators over 2M+1
SubtractLocalAverage(x, M) ==
    HalfWaveRectify([m \in DOMAIN x |-> x[m] * (2 * M + 1) - LocalSum(x, m, M)])

\* Python's round() of num/den >= 0: to the nearest integer, a tie to the even one
RoundHalfEven(num, den) ==
    LET q == num \div den
        r == num % den
    IN IF 2 * r < den THEN q
       ELSE IF 2 * r > den THEN q + 1
       ELSE IF q % 2 = 0 THEN q ELSE q + 1

\* _resample_novelty_to_target line 17: n_out = max(1, int(round(duration_s * Fs_target)))
ResampledLength(L, rateIn, rateOut) ==
    LET r == RoundHalfEven(L * rateOut, rateIn) IN IF r > 1 THEN r ELSE 1

\* _resample_novelty_to_target lines 18-21 for L >= 2: output sample j lies at
\* input position j * L / n_out; interp1d(kind="linear", fill_value="extrapolate")
\* takes the segment [i, i+1] that holds the position, the last segment beyond
\* the last input sample. Numerators over the denominator n_out.
ResampleNumerators(v, n_out) ==
    LET L == ArrLen(v)
    IN [j \in 0..(n_out - 1) |->
           LET fl == (j * L) \div n_out
               i == IF fl > L - 2 THEN L - 2 ELSE fl
           IN v[i] * n_out + (v[i + 1] - v[i]) * (j * L - i * n_out)]

NvValues == {0, 1, 2}
NvMethods == {"energy", "spectrum", "phase", "complex"}
FeatureRates == {40, 50, 100, 200}
TargetRates == {0, FS_TARGET_DEFAULT}
LocalAverageWidths == {0, 1}

NoveltyInit ==
    /\ nv_pc = "call"
    /\ nv_method \in NvMethods
    /\ nv_frames \in UNION {ArraysOf(NvValues, len) : len \in 1..MaxFrames}
    /\ nv_M \in (IF nv_method = "energy" THEN {0} ELSE LocalAverageWidths)
    /\ nv_norm \in BOOLEAN
    /\ Fs_feature \in FeatureRates
    /\ Fs_target \in TargetRates
    /\ nv_vals = <<>>
    /\ nv_den = 1
    /\ nv_divided = FALSE
    /\ nv_native_len = 0

NoveltyParked ==
    /\ nv_pc = "off"
    /\ nv_method = ""
    /\ nv_frames = <<>>
    /\ nv_M = 0
    /\ nv_norm = FALSE
    /\ Fs_feature = 0
    /\ Fs_target = 0
    /\ nv_vals = <<>>
    /\ nv_den = 1
    /\ nv_divided = FALSE
    /\ nv_native_len = 0

\* the curve of each method up to the local-average step; compute_novelty_complex
\* returns the zero curve at the native rate when there are fewer than 3 frames
\* (lines 206-208)
NvCompute ==
    /\ nv_pc = "call"
    /\ nv_vals' = (CASE nv_method = "energy" -> EnergyCurve(nv_frames)
                     [] nv_method = "spectrum" -> SpectrumCurve(nv_frames)
                     [] nv_method = "phase" -> PhaseCurve(nv_frames)
                     [] nv_method = "complex" -> ComplexCurve(nv_frames))
    /\ nv_pc' = IF nv_method = "complex" /\ ArrLen(nv_frames) < 3 THEN "done" ELSE "local"
    /\ nv_native_len' = ArrLen(nv_vals')
    /\ UNCHANGED <<nv_method, nv_frames, nv_M, nv_norm, Fs_feature, Fs_target, nv_den,
                   nv_divided>>
    /\ UNCHANGED notNovelty

\* lines 98-101, 152-155, 226-229: if M > 0 subtract the local average and rectify
NvLocalAverage ==
    /\ nv_pc = "local"
    /\ IF nv_method # "energy" /\ nv_M > 0
       THEN /\ nv_vals' = SubtractLocalAverage(nv_vals, nv_M)
            /\ nv_den' = nv_den * (2 * nv_M + 1)
       ELSE UNCHANGED <<nv_vals, nv_den>>
    /\ nv_pc' = "norm"
    /\ UNCHANGED <<nv_method, nv_frames, nv_M, nv_norm, Fs_feature, Fs_target,
                   nv_divided, nv_native_len>>
    /\ UNCHANGED notNovelty

\* lines 57-60, 102-105, 156-159, 231-234: if norm and the maximum is > 0, divide
\* by the maximum. Dividing numerator/denominator by maximum/denominator leaves
\* the numerators over the denominator max_value.
NvNormalize ==
    /\ nv_pc = "norm"
    /\ LET max_value == NpMax(nv_vals)
       IN IF nv_norm /\ max_value > 0
          THEN /\ nv_den' = max_value
               /\ nv_divided' = TRUE
          ELSE UNCHANGED <<nv_den, nv_divided>>
    /\ nv_pc' = "resample"
    /\ UNCHANGED <<nv_method, nv_frames, nv_M, nv_norm, Fs_feature, Fs_target, nv_vals,
                   nv_native_len>>
    /\ UNCHANGED notNovelty

\* lines 61-64, 106-109, 160-163, 236-239: resample when a target rate is given
\* and differs from the native rate, then return. What interp1d does with a
\* single input sample is left open: the call ends "undefined".
NvResample ==
    /\ nv_pc = "resample"
    /\ IF Fs_target # 0 /\ Fs_feature # Fs_target
       THEN IF ArrLen(nv_vals) < 2
            THEN /\ nv_pc' = "undefined"
                 /\ UNCHANGED <<nv_vals, nv_den>>
            ELSE LET n_out == ResampledLength(ArrLen(nv_vals), Fs_feature, Fs_target)
                 IN /\ nv_vals' = ResampleNumerators(nv_vals, n_out)
                    /\ nv_den' = nv_den * n_out
                    /\ nv_pc' = "done"
       ELSE /\ nv_pc' = "done"
            /\ UNCHANGED <<nv_vals, nv_den>>
    /\ UNCHANGED <<nv_method, nv_frames, nv_M, nv_norm, Fs_feature, Fs_target,
                   nv_divided, nv_native_len>>
    /\ UNCHANGED notNovelty


\* ----------------------------------------------------- widget session caches
\* widget_common.py: the grids of the eager precompute and the widgets' sample
\* rate, here twice the canonical rate so that every hop gives a whole rate
WidgetSr == 2 * FS_NOV
HOP_VALUES == {2, 4}
LOCAL_M_VALUES == {0, 1}
GAMMA_VALUES == {10}
LookupHops == {1, 2, 4}
TempogramWindows == {2}
SignalValues == {0, 1}

\* NOVELTY_DEFAULTS[method]["N"]
DefaultN(method) == IF method = "energy" THEN 2048 ELSE 1024

\* novelty_params_key / _novelty_params_key
novelty_params_key(method, NN, H, gamma, M) == <<method, NN, H, gamma, M>>

\* _tempogram_cache_key
tempogram_cache_key(novelty_key, tempogram_method, window, hop, tempo_min, tempo_max) ==
    <<novelty_key, tempogram_method, window, hop, tempo_min, tempo_max>>

\* the per-frame feature of one frequency bin: librosa's centred framing gives
\* 1 + len(x) // H frames, frame i centred at sample i * H (zero beyond the end)
FrameFeature(x, H) ==
    [i \in 0..(ArrLen(x) \div H) |-> IF i * H < ArrLen(x) THEN x[i * H] ELSE 0]

\* a method's curve at the native rate with norm=True: the per-method curve,
\* the local average for M > 0 (not for energy), the division by a maximum > 0
NoveltyNative(method, frames, M) ==
    LET base == IF method = "energy" THEN EnergyCurve(frames) ELSE SpectrumCurve(frames)
        local == IF method # "energy" /\ M > 0
                 THEN [vals |-> SubtractLocalAverage(base, M), den |-> 2 * M + 1]
                 ELSE [vals |-> base, den |-> 1]
        max_value == NpMax(local.vals)
    IN IF max_value > 0 THEN [vals |-> local.vals, den |-> max_value] ELSE local

\* compute_novelty_<method>(..., norm=True, Fs_target): the native curve,
\* resampled when the target rate differs; returns the curve and its rate
MethodCurve(method, frames, M, rateIn, rateOut) ==
    LET nat == NoveltyNative(method, frames, M)
    IN IF rateOut # 0 /\ rateIn # rateOut
       THEN LET n_out == ResampledLength(ArrLen(nat.vals), rateIn, rateOut)
            IN [vals |-> ResampleNumerators(nat.vals, n_out), den |-> nat.den * n_out,
                Fs |-> rateOut]
       ELSE [vals |-> nat.vals, den |-> nat.den, Fs |-> rateIn]

\* resample_novelty_to_100hz: n_out = int(duration_s * FS_NOV), linear
\* interpolation at n_out evenly spaced times
resample_novelty_to_100hz(nov, Fs_in) ==
    LET n_out == (ArrLen(nov.vals) * FS_NOV) \div Fs_in
    IN [vals |-> ResampleNumerators(nov.vals, n_out), den |-> nov.den * n_out]

\* what _compute_novelty_batch_shared_stft stores under (method, N, H, gamma, M):
\* for spectral the native curve computed inline and its resampling, for energy
\* compute_novelty_energy's curve and its resampling
BatchEntry(x, method, H, M) ==
    IF method = "energy"
    THEN LET c == MethodCurve("energy", FrameFeature(x, H), 0, WidgetSr \div H,
                              FS_TARGET_DEFAULT)
         IN [nov |-> [vals |-> c.vals, den |-> c.den],
             nov_100 |-> resample_novelty_to_100hz(c, c.Fs)]
    ELSE LET nov == NoveltyNative(method, FrameFeature(x, H), M)
         IN [nov |-> nov, nov_100 |-> resample_novelty_to_100hz(nov, WidgetSr \div H)]

\* what get_novelty_for_method computes on a miss: compute_novelty (the
\* method's function with its default Fs_target) and resample_novelty_to_100hz
ComputeEntry(x, method, H, M) ==
    LET c == MethodCurve(method, FrameFeature(x, H), M, WidgetSr \div H,
                         FS_TARGET_DEFAULT)
    IN [nov |-> [vals |-> c.vals, den |-> c.den],
        nov_100 |-> resample_novelty_to_100hz(c, c.Fs)]

\* _novelty_grid_keys restricted to the modelled methods
NoveltyGridKeys ==
    {novelty_params_key("energy", DefaultN("energy"), H, g, 0) :
         H \in HOP_VALUES, g \in GAMMA_VALUES}
    \cup {novelty_params_key("spectral", DefaultN("spectral"), kk[1], kk[2], kk[3]) :
              kk \in HOP_VALUES \X GAMMA_VALUES \X LOCAL_M_VALUES}

\* _compute_autocorrelation_local on the numerators v: zero-padding by
\* round(N/2) on both sides, frames of N samples every H, r_xx at lags 0..N-1,
\* divided by N - lag when norm_sum. Entries are <<numerator, denominator>>.
LocalAutocorrelation(v, NN, H, norm_sum) ==
    LET L_left == RoundHalfEven(NN, 2)
        L_pad == ArrLen(v) + 2 * L_left
        x_pad == [t \in 0..(L_pad - 1) |->
                      IF t >= L_left /\ t < L_left + ArrLen(v) THEN v[t - L_left] ELSE 0]
        frames == (L_pad - NN) \div H + 1
        r_xx(lag, t_0) ==
            LET prod == [t \in 0..(NN - 1 - lag) |-> x_pad[t_0 + t] * x_pad[t_0 + t + lag]]
            IN SumOver(prod, DOMAIN prod)
    IN [lag \in 0..(NN - 1) |->
           [fr \in 0..(frames - 1) |->
                <<r_xx(lag, fr * H), IF norm_sum THEN NN - lag ELSE 1>>]]

\* key in cache
CacheHit_Never(key, cache) == FALSE

CacheHit(key, cache) == key \in DOMAIN cache

\* cache[key] = value
Store(cache, key, value) ==
    [kk \in DOMAIN cache \cup {key} |-> IF kk = key THEN value ELSE cache[kk]]

\* the number of entries that get_novelty_for_method calls have stored
OnDemandEntries ==
    IF NoveltyGridKeys \subseteq DOMAIN novelty_cache
    THEN Cardinality(DOMAIN novelty_cache \ NoveltyGridKeys)
    ELSE Cardinality(DOMAIN novelty_cache)

NoCall == [fn |-> "none"]

CacheInit ==
    /\ wc_x \in UNION {ArraysOf(SignalValues, len) : len \in 4..MaxSignalLen}
    /\ wc_started = FALSE
    /\ novelty_cache = <<>>
    /\ tempogram_cache = <<>>
    /\ wc_call = NoCall
    /\ wc_hit = FALSE
    /\ wc_computed = FALSE
    /\ wc_ret = <<>>

CacheParked ==
    /\ wc_x = <<>>
    /\ wc_started = FALSE
    /\ novelty_cache = <<>>
    /\ tempogram_cache = <<>>
    /\ wc_call = NoCall
    /\ wc_hit = FALSE
    /\ wc_computed = FALSE
    /\ wc_ret = <<>>

\* eager_compute_novelty: a new dict filled by _compute_novelty_batch_shared_stft
EagerComputeNovelty ==
    /\ ~wc_started
    /\ wc_started' = TRUE
    /\ novelty_cache' = [key \in NoveltyGridKeys |-> BatchEntry(wc_x, key[1], key[3], key[5])]
    /\ wc_call' = [fn |-> "eager_compute_novelty"]
    /\ wc_hit' = FALSE
    /\ wc_computed' = TRUE
    /\ wc_ret' = <<>>
    /\ UNCHANGED <<wc_x, tempogram_cache>>
    /\ UNCHANGED notCache

\* get_novelty_for_method, lines 240-242: the key is in the cache
GetNoveltyHit ==
    \E method \in {"energy", "spectral"}, H \in LookupHops, g \in GAMMA_VALUES,
       M \in LOCAL_M_VALUES :
        LET key == novelty_params_key(method, DefaultN(method), H, g, M)
        IN /\ method = "energy" => M = 0
           /\ CacheHit(key, novelty_cache)
           /\ wc_started' = TRUE
           /\ wc_call' = [fn |-> "get_novelty_for_method", method |-> method, H |-> H,
                          gamma |-> g, M |-> M, key |-> key]
           /\ wc_hit' = TRUE
           /\ wc_computed' = FALSE
           /\ wc_ret' = novelty_cache[key]
           /\ UNCHANGED <<wc_x, novelty_cache, tempogram_cache>>
           /\ UNCHANGED notCache

\* get_novelty_for_method, lines 243-249: compute, store under the key, return
GetNoveltyMiss ==
    \E method \in {"energy", "spectral"}, H \in LookupHops, g \in GAMMA_VALUES,
       M \in LOCAL_M_VALUES :
        LET key == novelty_params_key(method, DefaultN(method), H, g, M)
            entry == ComputeEntry(wc_x, method, H, M)
        IN /\ method = "energy" => M = 0
           /\ ~CacheHit(key, novelty_cache)
           /\ OnDemandEntries < MaxOnDemand
           /\ wc_started' = TRUE
           /\ wc_call' = [fn |-> "get_novelty_for_method", method |-> method, H |-> H,
                          gamma |-> g, M |-> M, key |-> key]
           /\ wc_hit' = FALSE
           /\ wc_computed' = TRUE
           /\ novelty_cache' = Store(novelty_cache, key, entry)
           /\ wc_ret' = entry
           /\ UNCHANGED <<wc_x, tempogram_cache>>
           /\ UNCHANGED notCache

\* get_tempogram_for_methods for the autocorrelation tempogram of a cached
\* curve, lines 118-120: the key is in the cache
GetTempogramHit ==
    \E nkey \in DOMAIN novelty_cache, window \in TempogramWindows, norm_sum \in BOOLEAN :
        LET key == tempogram_cache_key(nkey, "autocorr", window, 1, 40, 320)
        IN /\ CacheHit(key, tempogram_cache)
           /\ wc_started' = TRUE
           /\ wc_call' = [fn |-> "get_tempogram_for_methods", novelty_key |-> nkey,
                          window |-> window, norm_sum |-> norm_sum, key |-> key]
           /\ wc_hit' = TRUE
           /\ wc_computed' = FALSE
           /\ wc_ret' = tempogram_cache[key]
           /\ UNCHANGED <<wc_x, novelty_cache, tempogram_cache>>
           /\ UNCHANGED notCache

\* get_tempogram_for_methods, lines 121-127: compute_tempogram, store, return
GetTempogramMiss ==
    \E nkey \in DOMAIN novelty_cache, window \in TempogramWindows, norm_sum \in BOOLEAN :
        LET key == tempogram_cache_key(nkey, "autocorr", window, 1, 40, 320)
            out == LocalAutocorrelation(novelty_cache[nkey].nov_100.vals, window, 1,
                                        norm_sum)
        IN /\ ~CacheHit(key, tempogram_cache)
           /\ Cardinality(DOMAIN tempogram_cache) < MaxTempogramEntries
           /\ wc_started' = TRUE
           /\ wc_call' = [fn |-> "get_tempogram_for_methods", novelty_key |-> nkey,
                          window |-> window, norm_sum |-> norm_sum, key |-> key]
           /\ wc_hit' = FALSE
           /\ wc_computed' = TRUE
           /\ tempogram_cache' = Store(tempogram_cache, key, out)
           /\ wc_ret' = out
           /\ UNCHANGED <<wc_x, novelty_cache>>
           /\ UNCHANGED notCache


\* ------------------------------------------------------------ batch stages
\* pipeline/novelty.py NOVELTY_TYPES, pipeline/tempogram.py TEMPOGRAM_TYPES
NOVELTY_TYPES == {"spectrum", "energy", "phase", "complex"}
TEMPOGRAM_TYPES == {"fourier", "autocorr", "cyclic"}

\* the type names, window and hop lengths and tempo ranges passed in
NoveltyTypeNames == {"spectrum", "energy", "invalid"}
TempogramTypeNames == {"fourier", "autocorr", "cyclic", "invalid"}
WindowLengths == {0, 2}
Hops == {-1, 0, 1}
ThetaRanges == {<<40, 320>>, <<100, 100>>, <<320, 40>>}

\* ntype in NOVELTY_TYPES / TEMPOGRAM_TYPES
KnownType_Any(ntype, types) == TRUE

KnownType(ntype, types) == ntype \in types

\* int(a / b): the quotient truncated toward zero
IntTrunc(a, b) == IF (a >= 0) = (b > 0) THEN Abs(a) \div Abs(b) ELSE -(Abs(a) \div Abs(b))

\* len(np.arange(theta_min, theta_max + 1))
ThetaLen(theta) == IF theta[2] + 1 > theta[1] THEN theta[2] + 1 - theta[1] ELSE 0

\* whether compute_tempogram_fourier(nov, FS_NOVELTY, N, H, Theta) returns:
\* M = int(np.floor(L_pad - N) / H) + 1 divides by H, np.zeros((K, M)) needs
\* M >= 0; an empty Theta or window only empties the loops
FourierReturns(L, NN, H) ==
    /\ H # 0
    /\ IntTrunc(L + 2 * (NN \div 2) - NN, H) + 1 >= 0

\* the outcomes of the try block's computation, lines 125-133 of
\* pipeline/tempogram.py: autocorr reads Theta[0] and Theta[-1], correlates
\* windows of N samples and interpolates over the lag range; cyclic
\* interpolates the Fourier tempogram over its tempo axis (at least 2 tempi)
TempogramOutcomes(ntype, NN, H, theta) ==
    IF ntype = "fourier"
    THEN IF FourierReturns(NoveltyFileLen, NN, H) THEN {"returns"} ELSE {"raises"}
    ELSE IF ntype = "autocorr"
    THEN IF ThetaLen(theta) >= 2 /\ NN > 0 /\ H > 0 THEN {"returns"} ELSE {"raises"}
    ELSE IF FourierReturns(NoveltyFileLen, NN, H) /\ ThetaLen(theta) >= 2
         THEN {"returns"} ELSE {"raises"}

\* the outcomes of _compute_novelty: an unknown type raises (line 79);
\* compute_novelty_energy divides by H, convolves with a window of N samples
\* and decimates with the slice [::H], which a negative H accepts;
\* compute_novelty_spectrum hands N and H to librosa.stft, whose treatment of
\* non-positive values is the library's
NoveltyOutcomes(ntype, NN, H) ==
    IF ~KnownType(ntype, NOVELTY_TYPES) THEN {"raises"}
    ELSE IF ntype = "energy"
    THEN IF H # 0 /\ NN > 0 THEN {"returns"} ELSE {"raises"}
    ELSE IF NN > 0 /\ H > 0 THEN {"returns"} ELSE {"returns", "raises"}

\* the result dict, lines 187-197 / 144-154
ResultDict(total, succeeded, failed) ==
    [success |-> failed = 0, total |-> total, succeeded |-> succeeded, failed |-> failed]

PipelineInit ==
    /\ pl_pc = "call"
    /\ pl_fn \in {"run_novelty", "run_tempogram", "_compute_novelty"}
    /\ pl_ntype \in (IF pl_fn = "run_tempogram" THEN TempogramTypeNames
                     ELSE NoveltyTypeNames)
    /\ pl_N \in WindowLengths
    /\ pl_H \in Hops
    /\ pl_theta \in (IF pl_fn = "run_tempogram" THEN ThetaRanges ELSE {<<40, 320>>})
    /\ pl_files \in (IF pl_fn = "_compute_novelty" THEN {<<>>}
                     ELSE UNION {[1..cnt -> BOOLEAN] : cnt \in 0..MaxFiles})
    /\ pl_dry_run \in (IF pl_fn = "_compute_novelty" THEN {FALSE} ELSE BOOLEAN)
    /\ pl_i = 0
    /\ pl_reads = 0
    /\ pl_computes = 0
    /\ pl_writes = 0
    /\ pl_succeeded = 0
    /\ pl_failed = 0
    /\ pl_result = <<>>

PipelineParked ==
    /\ pl_pc = "off"
    /\ pl_fn = ""
    /\ pl_ntype = ""
    /\ pl_N = 0
    /\ pl_H = 0
    /\ pl_theta = <<>>
    /\ pl_files = <<>>
    /\ pl_dry_run = FALSE
    /\ pl_i = 0
    /\ pl_reads = 0
    /\ pl_computes = 0
    /\ pl_writes = 0
    /\ pl_succeeded = 0
    /\ pl_failed = 0
    /\ pl_result = <<>>

PlTypes == IF pl_fn = "run_tempogram" THEN TEMPOGRAM_TYPES ELSE NOVELTY_TYPES

\* run_novelty lines 108-118, run_tempogram lines 68-78: unknown type
PlReject ==
    /\ pl_pc = "call"
    /\ pl_fn \in {"run_novelty", "run_tempogram"}
    /\ ~KnownType(pl_ntype, PlTypes)
    /\ pl_result' = [success |-> FALSE, total |-> 0, succeeded |-> 0, failed |-> 0]
    /\ pl_pc' = "returned"
    /\ UNCHANGED <<pl_fn, pl_ntype, pl_N, pl_H, pl_theta, pl_files, pl_dry_run, pl_i,
                   pl_reads, pl_computes, pl_writes, pl_succeeded, pl_failed>>
    /\ UNCHANGED notPipeline

\* run_novelty lines 126-137, run_tempogram lines 87-98: no paths
PlNoFiles ==
    /\ pl_pc = "call"
    /\ pl_fn \in {"run_novelty", "run_tempogram"}
    /\ KnownType(pl_ntype, PlTypes)
    /\ Len(pl_files) = 0
    /\ pl_result' = [success |-> TRUE, total |-> 0, succeeded |-> 0, failed |-> 0]
    /\ pl_pc' = "returned"
    /\ UNCHANGED <<pl_fn, pl_ntype, pl_N, pl_H, pl_theta, pl_files, pl_dry_run, pl_i,
                   pl_reads, pl_computes, pl_writes, pl_succeeded, pl_failed>>
    /\ UNCHANGED notPipeline

\* run_novelty lines 139-146, run_tempogram lines 100-107: enter the loop
PlStart ==
    /\ pl_pc = "call"
    /\ pl_fn \in {"run_novelty", "run_tempogram"}
    /\ KnownType(pl_ntype, PlTypes)
    /\ Len(pl_files) > 0
    /\ pl_pc' = "loop"
    /\ pl_i' = 1
    /\ UNCHANGED <<pl_fn, pl_ntype, pl_N, pl_H, pl_theta, pl_files, pl_dry_run,
                   pl_reads, pl_computes, pl_writes, pl_succeeded, pl_failed, pl_result>>
    /\ UNCHANGED notPipeline

\* run_novelty lines 153-157, run_tempogram lines 114-118: the path is missing
PlItemMissing ==
    /\ pl_pc = "loop"
    /\ pl_i <= Len(pl_files)
    /\ ~pl_files[pl_i]
    /\ pl_failed' = pl_failed + 1
    /\ pl_i' = pl_i + 1
    /\ UNCHANGED <<pl_pc, pl_fn, pl_ntype, pl_N, pl_H, pl_theta, pl_files, pl_dry_run,
                   pl_reads, pl_computes, pl_writes, pl_succeeded, pl_result>>
    /\ UNCHANGED notPipeline

PlOutcomes ==
    IF pl_fn = "run_tempogram"
    THEN TempogramOutcomes(pl_ntype, pl_N, pl_H, pl_theta)
    ELSE NoveltyOutcomes(pl_ntype, pl_N, pl_H)

\* run_novelty lines 159-181, run_tempogram lines 120-138: load the input,
\* compute, save unless dry_run, count the item as succeeded
PlItemSuccess ==
    /\ pl_pc = "loop"
    /\ pl_i <= Len(pl_files)
    /\ pl_files[pl_i]
    /\ "returns" \in PlOutcomes
    /\ pl_reads' = pl_reads + 1
    /\ pl_computes' = pl_computes + 1
    /\ pl_writes' = IF pl_dry_run THEN pl_writes ELSE pl_writes + 1
    /\ pl_succeeded' = pl_succeeded + 1
    /\ pl_i' = pl_i + 1
    /\ UNCHANGED <<pl_pc, pl_fn, pl_ntype, pl_N, pl_H, pl_theta, pl_files, pl_dry_run,
                   pl_failed, pl_result>>
    /\ UNCHANGED notPipeline

\* run_novelty lines 159-167 and 182-185, run_tempogram lines 120-133 and
\* 139-142: load the input, the computation raises, count the item as failed
PlItemFail ==
    /\ pl_pc = "loop"
    /\ pl_i <= Len(pl_files)
    /\ pl_files[pl_i]
    /\ "raises" \in PlOutcomes
    /\ pl_reads' = pl_reads + 1
    /\ pl_computes' = pl_computes + 1
    /\ pl_failed' = pl_failed + 1
    /\ pl_i' = pl_i + 1
    /\ UNCHANGED <<pl_pc, pl_fn, pl_ntype, pl_N, pl_H, pl_theta, pl_files, pl_dry_run,
                   pl_writes, pl_succeeded, pl_result>>
    /\ UNCHANGED notPipeline

\* run_novelty lines 187-197, run_tempogram lines 144-154
PlReturn ==
    /\ pl_pc = "loop"
    /\ pl_i > Len(pl_files)
    /\ pl_result' = ResultDict(Len(pl_files), pl_succeeded, pl_failed)
    /\ pl_pc' = "returned"
    /\ UNCHANGED <<pl_fn, pl_ntype, pl_N, pl_H, pl_theta, pl_files, pl_dry_run, pl_i,
                   pl_reads, pl_computes, pl_writes, pl_succeeded, pl_failed>>
    /\ UNCHANGED notPipeline

\* _compute_novelty called on its own, lines 61-80: dispatch or raise
PlDispatch ==
    /\ pl_pc = "call"
    /\ pl_fn = "_compute_novelty"
    /\ \E outcome \in NoveltyOutcomes(pl_ntype, pl_N, pl_H) :
        /\ pl_pc' = IF outcome = "raises" THEN "raised" ELSE "returned"
        /\ pl_computes' = IF KnownType(pl_ntype, NOVELTY_TYPES) THEN pl_computes + 1
                          ELSE pl_computes
    /\ UNCHANGED <<pl_fn, pl_ntype, pl_N, pl_H, pl_theta, pl_files, pl_dry_run, pl_i,
                   pl_reads, pl_writes, pl_succeeded, pl_failed, pl_result>>
    /\ UNCHANGED notPipeline


\* ---------------------------------------------- reference tempo of run_beats
\* the tempo ranges run_tempogram and run_beats are called with, the numbers
\* of frames and the magnitudes of a tempogram
TempoRanges == {<<40, 41>>, <<40, 42>>, <<60, 62>>}
BeatsTempoRanges == {<<40, 41>>, <<40, 42>>}
Magnitudes == {0, 1}
TempogramFrames == 2

\* np.arange(theta_min, theta_max + 1)
Arange(lo, hi) == [i \in 0..(hi - lo) |-> lo + i]

\* np.mean(np.abs(tempogram_arr), axis=1) times the number of frames
TempoProfile(arr) ==
    [r \in DOMAIN arr |-> SumOver([c \in DOMAIN arr[r] |-> Abs(arr[r][c])], DOMAIN arr[r])]

\* compute_cyclic_tempogram with tempo_ref = 40 and one bin in one octave: the
\* only row is the tempogram interpolated (extrapolated beyond the axis) at
\* 40 BPM, F_coef_BPM being Arange(theta): with unit spacing the value on the
\* first segment is row0 + (row1 - row0) * (40 - theta_min)
CyclicFold(arr, theta) ==
    [m \in 0..0 |->
        [c \in DOMAIN arr[0] |-> arr[0][c] + (arr[1][c] - arr[0][c]) * (40 - theta[1])]]

\* what run_tempogram saves, lines 125-136: the magnitudes on Theta for
\* fourier and autocorr, the cyclic tempogram for cyclic
SavedTempogram(ttype, arr, theta) ==
    IF ttype = "cyclic" THEN CyclicFold(arr, theta) ELSE arr

\* run_beats line 126: theta if K == len(theta) else np.arange(40, 40 + K)
AssumedAxis(K, theta) ==
    IF K = theta[2] - theta[1] + 1 THEN Arange(theta[1], theta[2])
    ELSE Arange(40, 40 + K - 1)

BeatRefInit ==
    /\ rf_pc = "tempogram"
    /\ tg_type \in TEMPOGRAM_TYPES
    /\ tg_theta \in TempoRanges
    /\ tg_fourier \in [0..(tg_theta[2] - tg_theta[1]) ->
                          [0..(TempogramFrames - 1) -> Magnitudes]]
    /\ tg_file = <<>>
    /\ rf_theta \in BeatsTempoRanges
    /\ rf_tempo_bpm = 0
    /\ rf_beat_ref = 0

BeatRefParked ==
    /\ rf_pc = "off"
    /\ tg_type = ""
    /\ tg_theta = <<>>
    /\ tg_fourier = <<>>
    /\ tg_file = <<>>
    /\ rf_theta = <<>>
    /\ rf_tempo_bpm = 0
    /\ rf_beat_ref = 0

\* run_tempogram lines 125-138: compute and save the tempogram
RfSaveTempogram ==
    /\ rf_pc = "tempogram"
    /\ tg_file' = SavedTempogram(tg_type, tg_fourier, tg_theta)
    /\ rf_pc' = "beats"
    /\ UNCHANGED <<tg_type, tg_theta, tg_fourier, rf_theta, rf_tempo_bpm, rf_beat_ref>>
    /\ UNCHANGED notBeatRef

\* run_beats lines 120-128: load the tempogram, choose the tempo axis, take
\* the tempo of the row of maximum time-averaged magnitude
RfTempo ==
    /\ rf_pc = "beats"
    /\ LET K == ArrLen(tg_file)
           F_coef_BPM == AssumedAxis(K, rf_theta)
           tempo_profile == TempoProfile(tg_file)
       IN rf_tempo_bpm' = F_coef_BPM[NpArgmax(tempo_profile)]
    /\ rf_pc' = "beat_ref"
    /\ UNCHANGED <<tg_type, tg_theta, tg_fourier, tg_file, rf_theta, rf_beat_ref>>
    /\ UNCHANGED notBeatRef

\* run_beats line 129: beat_ref = int(np.round(FS_NOV * 60.0 / tempo_bpm))
RfBeatRef ==
    /\ rf_pc = "beat_ref"
    /\ rf_beat_ref' = RoundHalfEven(FS_NOV * 60, rf_tempo_bpm)
    /\ rf_pc' = "done"
    /\ UNCHANGED <<tg_type, tg_theta, tg_fourier, tg_file, rf_theta, rf_tempo_bpm>>
    /\ UNCHANGED notBeatRef

\* ------------------------------------------ manifest.csv (utils/_manifest.py)
\* A string is a sequence of characters; "CR" and "LF" are the carriage return
\* and the line feed, ".." is the parent-directory component, and every other
\* token is an ordinary character or run of characters.
MaxRows == 2

ManifestProfiles == {"raw", "upstream", "derived"}

\* The fields of a row that the profiles constrain. acq_sha256, ingested_at,
\* source_name and schema_version are required too and carry no uniqueness rule;
\* the calls modelled here always supply them.
RowFields == {"file_id", "rel_path", "status", "sha256"}

\* PROFILES[profile]["required_fields"], restricted to RowFields
RequiredFields(profile) ==
    CASE profile = "raw" -> {"file_id", "rel_path", "status", "sha256"}
      [] profile = "upstream" -> {"sha256"}
      [] profile = "derived" -> {"rel_path", "status", "sha256"}

\* PROFILES[profile]["unique_fields"]
UniqueFields(profile) ==
    CASE profile = "raw" -> {"file_id", "sha256", "rel_path"}
      [] profile = "upstream" -> {}
      [] profile = "derived" -> {"rel_path"}

\* PROFILES[profile]["status_enum_mode"]
StatusEnumMode(profile) == IF profile = "raw" THEN "strict" ELSE "if_present"

VALID_STATUSES == {<<"active">>, <<"superseded">>, <<"archived">>}

\* the characters str.strip() removes
Whitespace == {" ", "CR", "LF"}

RECURSIVE LStrip(_)
LStrip(s) ==
    IF s = <<>> THEN <<>>
    ELSE IF s[1] \in Whitespace THEN LStrip(Tail(s)) ELSE s

RECURSIVE RStrip(_)
RStrip(s) ==
    IF s = <<>> THEN <<>>
    ELSE IF s[Len(s)] \in Whitespace THEN RStrip(SubSeq(s, 1, Len(s) - 1)) ELSE s

\* str.strip()
Strip(s) == RStrip(LStrip(s))

\* What a field value written by write_manifest (opened with newline="", so the
\* characters go to the file as they are, quoted) is when read_manifest reads it
\* back: the file is opened in text mode without newline="", so a CR LF pair and
\* a lone CR inside the quoted field arrive as LF.
RECURSIVE UniversalNewlines(_)
UniversalNewlines(s) ==
    IF s = <<>> THEN <<>>
    ELSE IF s[1] = "CR"
         THEN IF Len(s) >= 2 /\ s[2] = "LF"
              THEN <<"LF">> \o UniversalNewlines(SubSeq(s, 3, Len(s)))
              ELSE <<"LF">> \o UniversalNewlines(Tail(s))
         ELSE <<s[1]>> \o UniversalNewlines(Tail(s))

\* read_manifest: the rows of the file as the program sees them
read_manifest(exists, rows) ==
    IF ~exists THEN <<>>
    ELSE [i \in 1..Len(rows) |-> [f \in RowFields |-> UniversalNewlines(rows[i][f])]]

\* build_manifest_index: per unique field, the stripped non-empty values
build_manifest_index(rows, profile) ==
    [f \in UniqueFields(profile) |->
        {Strip(rows[i][f]) : i \in {j \in 1..Len(rows) : Strip(rows[j][f]) # <<>>}}]

\* normalize_rel_path raises for a blank path and for one containing '..'
RelPathRejected(rel_path) ==
    \/ Strip(rel_path) = <<>>
    \/ \E i \in 1..Len(Strip(rel_path)) : Strip(rel_path)[i] = ".."

\* normalize_rel_path on a path it accepts: stripped, relative to DATA_DIR
normalize_rel_path(rel_path) == Strip(rel_path)

\* append_manifest_row lines 537-563: the row built from the arguments
NewRow(call) ==
    [f \in RowFields |->
        IF f = "rel_path"
        THEN IF call.rel_path # <<>> THEN normalize_rel_path(call.rel_path) ELSE <<>>
        ELSE call[f]]

\* validate_manifest on the rows read back: TRUE when it reports an error
ValidationErrors(rows, profile) ==
    \/ \E i \in 1..Len(rows) :
          \/ \E f \in RequiredFields(profile) : Strip(rows[i][f]) = <<>>
          \/ /\ Strip(rows[i].status) # <<>>
             /\ Strip(rows[i].status) \notin VALID_STATUSES
          \/ /\ Strip(rows[i].status) = <<>>
             /\ StatusEnumMode(profile) = "strict"
          \/ /\ Strip(rows[i].rel_path) # <<>>
             /\ RelPathRejected(Strip(rows[i].rel_path))
    \/ \E f \in UniqueFields(profile) :
          \E i \in 1..Len(rows) : \E j \in (i + 1)..Len(rows) :
              /\ Strip(rows[i][f]) # <<>>
              /\ Strip(rows[i][f]) = Strip(rows[j][f])

\* append_manifest_row: TRUE when the call raises ValueError, the checks in the
\* order of the code
AppendRaises(exists, rows, profile, call) ==
    LET existing_rows == read_manifest(exists, rows)
        index == build_manifest_index(existing_rows, profile)
    IN \/ call.rel_path # <<>> /\ RelPathRejected(call.rel_path)
       \/ \E f \in RequiredFields(profile) : Strip(NewRow(call)[f]) = <<>>
       \/ call.status # <<>> /\ call.status \notin VALID_STATUSES
       \/ call.status = <<>> /\ StatusEnumMode(profile) = "strict"
       \/ \E f \in UniqueFields(profile) :
             /\ Strip(NewRow(call)[f]) # <<>>
             /\ Strip(NewRow(call)[f]) \in index[f]
       \/ /\ call.validate = "full"
          /\ ValidationErrors(read_manifest(TRUE, Append(existing_rows, NewRow(call))),
                              profile)

\* the argument values of the calls
FileIdValues == {<<>>, <<"F1">>, <<"F2">>}
RelPathValues == {<<>>, <<"p">>, <<"q">>, <<"..">>}
StatusValues == {<<>>, <<"active">>, <<"bogus">>}
Sha256Values == {<<>>, <<"a">>, <<"a", " ">>, <<"a", "CR", "b">>}
ValidateModes == {"row", "full"}

ManifestCalls ==
    [file_id : FileIdValues, rel_path : RelPathValues, status : StatusValues,
     sha256 : Sha256Values, validate : ValidateModes]

\* the call names, in a field the profile declares unique, a non-empty value
\* that a row of the manifest has
WouldDuplicate(exists, rows, profile, call) ==
    LET existing_rows == read_manifest(exists, rows)
    IN \E f \in UniqueFields(profile) :
          /\ NewRow(call)[f] # <<>>
          /\ \E i \in 1..Len(existing_rows) : existing_rows[i][f] = NewRow(call)[f]

\* a manifest that does not exist yet
ManifestInit ==
    /\ mf_profile \in ManifestProfiles
    /\ mf_exists = FALSE
    /\ mf_rows = <<>>
    /\ mf_dup = FALSE
    /\ mf_outcome = "none"
    /\ mf_before = <<FALSE, <<>>>>

ManifestParked ==
    /\ mf_profile = ""
    /\ mf_exists = FALSE
    /\ mf_rows = <<>>
    /\ mf_dup = FALSE
    /\ mf_outcome = "none"
    /\ mf_before = <<FALSE, <<>>>>

\* append_manifest_row, a call that passes every check: the rows read from the
\* file and the new row are written back (lines 614-616)
AppendManifestRow ==
    /\ mf_profile \in ManifestProfiles
    /\ Len(mf_rows) < MaxRows
    /\ \E call \in ManifestCalls :
          /\ ~AppendRaises(mf_exists, mf_rows, mf_profile, call)
          /\ mf_dup' = WouldDuplicate(mf_exists, mf_rows, mf_profile, call)
          /\ mf_rows' = Append(read_manifest(mf_exists, mf_rows), NewRow(call))
    /\ mf_exists' = TRUE
    /\ mf_outcome' = "ok"
    /\ mf_before' = <<mf_exists, mf_rows>>
    /\ UNCHANGED mf_profile
    /\ UNCHANGED notManifest

\* append_manifest_row, a call that raises ValueError: every raise comes before
\* the write of line 616, and the temporary file of full validation is removed
AppendManifestRowRaises ==
    /\ mf_profile \in ManifestProfiles
    /\ \E call \in ManifestCalls :
          /\ AppendRaises(mf_exists, mf_rows, mf_profile, call)
          /\ mf_dup' = WouldDuplicate(mf_exists, mf_rows, mf_profile, call)
    /\ mf_outcome' = "ValueError"
    /\ mf_before' = <<mf_exists, mf_rows>>
    /\ UNCHANGED <<mf_profile, mf_exists, mf_rows>>
    /\ UNCHANGED notManifest

\* ------------------------------- ingest (pipeline/ingest/youtube.py)
\* A content is the sha256 of a file's bytes, 0 standing for "no such file". A
\* file_id is <<YYMM, SEQ>>; the raw file of a file_id is <file_id>.mp3 and its
\* rel_path names the file_id.
MaxBundles == 2
MaxRuns == 3
MaxMonths == 2
MaxContent == 2

\* A bundle: the content of its MP3 (0 = none on disk), the sha256 the
\* acquisition manifest lists for it (0 = not listed), whether a youtube_id can
\* be extracted, and whether its yt_dlp entry is a JSON object
BundleValues ==
    {b \in [mp3 : 0..MaxContent, listed : 0..1, has_id : BOOLEAN, yt_dlp_ok : BOOLEAN] :
        b.mp3 = 0 => b.listed = 0}

\* _ingest_bundle lines 232-237: the manifest's sha256 if listed, else computed
AcqSha256(b) == IF b.listed # 0 THEN b.listed ELSE b.mp3

\* ingest lines 104-109: the acq_sha256 of the active and superseded rows
IngestedAcqSha256(rows) ==
    {rows[i].acq_sha256 : i \in {j \in 1..Len(rows) : rows[j].status \in {"active", "superseded"}}}

\* _ingest_bundle line 240
AlreadyIngested(acq_sha256, ingested_acq_sha256) == acq_sha256 \in ingested_acq_sha256

\* generate_next_file_id: one more than the highest SEQ of the month's rows
generate_next_file_id(rows, month) ==
    LET seqs == {rows[i].file_id[2] : i \in {j \in 1..Len(rows) : rows[j].file_id[1] = month}}
    IN <<month, IF seqs = {} THEN 1 ELSE (CHOOSE s \in seqs : \A t \in seqs : t <= s) + 1>>

\* append_manifest_row under the raw profile, lines 585-593: file_id, sha256 and
\* rel_path (which names the file_id) must be new
RawAppendRejected(rows, file_id, sha256) ==
    \E i \in 1..Len(rows) : rows[i].file_id = file_id \/ rows[i].sha256 = sha256

\* raw_file.write_bytes(...)
WriteFile(files, file_id, content) ==
    [f \in DOMAIN files \cup {file_id} |-> IF f = file_id THEN content ELSE files[f]]

\* raw_file.unlink(missing_ok=True)
Unlink(files, file_id) == [f \in DOMAIN files \ {file_id} |-> files[f]]

\* a raw manifest holding one row archived by hand, with its file
ArchivedRow == [file_id |-> <<1, 1>>, acq_sha256 |-> 1, sha256 |-> 1, status |-> "archived"]

IngestInit ==
    /\ ig_bundles \in UNION {[1..len -> BundleValues] : len \in 1..MaxBundles}
    /\ \/ raw_manifest = <<>> /\ raw_files = <<>>
       \/ raw_manifest = <<ArchivedRow>> /\ raw_files = [f \in {<<1, 1>>} |-> 1]
    /\ ig_pc = "idle"
    /\ ig_dry_run = FALSE
    /\ ig_month = 1
    /\ ig_i = 0
    /\ processed_acq_sha256 = {}
    /\ ig_start_shas = {}
    /\ ingested_count = 0
    /\ skipped_count = 0
    /\ failed_count = 0
    /\ ig_outcomes = <<>>
    /\ ig_real_runs = 0
    /\ ig_runs = 0

IngestParked ==
    /\ ig_bundles = <<>>
    /\ raw_manifest = <<>>
    /\ raw_files = <<>>
    /\ ig_pc = "off"
    /\ ig_dry_run = FALSE
    /\ ig_month = 0
    /\ ig_i = 0
    /\ processed_acq_sha256 = {}
    /\ ig_start_shas = {}
    /\ ingested_count = 0
    /\ skipped_count = 0
    /\ failed_count = 0
    /\ ig_outcomes = <<>>
    /\ ig_real_runs = 0
    /\ ig_runs = 0

\* ingest lines 55-116: the manifests are read and the counters reset
IgStart ==
    /\ ig_pc = "idle"
    /\ ig_runs < MaxRuns
    /\ ig_pc' = "loop"
    /\ ig_dry_run' \in BOOLEAN
    /\ ig_month' \in ig_month..MaxMonths
    /\ ig_i' = 1
    /\ ig_start_shas' = IngestedAcqSha256(raw_manifest)
    /\ processed_acq_sha256' = IngestedAcqSha256(raw_manifest)
    /\ ingested_count' = 0
    /\ skipped_count' = 0
    /\ failed_count' = 0
    /\ ig_outcomes' = <<>>
    /\ UNCHANGED <<ig_bundles, raw_manifest, raw_files, ig_real_runs, ig_runs>>
    /\ UNCHANGED notIngest

\* the bundle the loop is at
IgBundle == ig_bundles[ig_i]

IgInLoop == ig_pc = "loop" /\ ig_i <= Len(ig_bundles)

\* the bundle gets past the checks of lines 196-241
IgToBeIngested ==
    /\ IgInLoop
    /\ IgBundle.has_id
    /\ IgBundle.mp3 # 0
    /\ ~AlreadyIngested(AcqSha256(IgBundle), processed_acq_sha256)

\* ingest lines 130-142, for a bundle that wrote nothing
IgCount(status) ==
    /\ ig_i' = ig_i + 1
    /\ ig_outcomes' = Append(ig_outcomes, status)
    /\ ingested_count' = ingested_count + (IF status = "ingested" THEN 1 ELSE 0)
    /\ skipped_count' = skipped_count + (IF status = "skipped" THEN 1 ELSE 0)
    /\ failed_count' = failed_count + (IF status = "failed" THEN 1 ELSE 0)
    /\ UNCHANGED <<ig_bundles, ig_pc, ig_dry_run, ig_month, ig_start_shas, ig_real_runs,
                   ig_runs>>
    /\ UNCHANGED notIngest

\* _ingest_bundle lines 196-200: no youtube_id
IgBundleNoId ==
    /\ IgInLoop
    /\ ~IgBundle.has_id
    /\ IgCount("failed")
    /\ UNCHANGED <<raw_manifest, raw_files, processed_acq_sha256>>

\* _ingest_bundle lines 219-241: no MP3, or its acq_sha256 is already ingested
IgBundleSkipped ==
    /\ IgInLoop
    /\ IgBundle.has_id
    /\ \/ IgBundle.mp3 = 0
       \/ AlreadyIngested(AcqSha256(IgBundle), processed_acq_sha256)
    /\ IgCount("skipped")
    /\ UNCHANGED <<raw_manifest, raw_files, processed_acq_sha256>>

\* _ingest_bundle lines 243-249: a dry run reports "ingested" without acq_sha256
IgBundleDryRun ==
    /\ IgToBeIngested
    /\ ig_dry_run
    /\ IgCount("ingested")
    /\ UNCHANGED <<raw_manifest, raw_files, processed_acq_sha256>>

\* _ingest_bundle lines 251-274: the copy's checksum differs from acq_sha256,
\* the copy is removed
IgBundleMismatch ==
    /\ IgToBeIngested
    /\ ~ig_dry_run
    /\ IgBundle.mp3 # AcqSha256(IgBundle)
    /\ LET file_id == generate_next_file_id(raw_manifest, ig_month)
       IN raw_files' = Unlink(WriteFile(raw_files, file_id, IgBundle.mp3), file_id)
    /\ IgCount("failed")
    /\ UNCHANGED <<raw_manifest, processed_acq_sha256>>

\* _ingest_bundle lines 251-278: the copy is written and verified, then
\* yt_dlp.get raises on a yt_dlp entry that is not an object; ingest lines
\* 140-142 count the bundle as failed
IgBundleMetaError ==
    /\ IgToBeIngested
    /\ ~ig_dry_run
    /\ IgBundle.mp3 = AcqSha256(IgBundle)
    /\ ~IgBundle.yt_dlp_ok
    /\ LET file_id == generate_next_file_id(raw_manifest, ig_month)
       IN raw_files' = WriteFile(raw_files, file_id, IgBundle.mp3)
    /\ IgCount("failed")
    /\ UNCHANGED <<raw_manifest, processed_acq_sha256>>

\* _ingest_bundle lines 299-323: append_manifest_row raises, the copy is removed
IgBundleAppendRejected ==
    /\ IgToBeIngested
    /\ ~ig_dry_run
    /\ IgBundle.mp3 = AcqSha256(IgBundle)
    /\ IgBundle.yt_dlp_ok
    /\ LET file_id == generate_next_file_id(raw_manifest, ig_month)
       IN /\ RawAppendRejected(raw_manifest, file_id, IgBundle.mp3)
          /\ raw_files' = Unlink(WriteFile(raw_files, file_id, IgBundle.mp3), file_id)
    /\ IgCount("failed")
    /\ UNCHANGED <<raw_manifest, processed_acq_sha256>>

\* _ingest_bundle lines 251-329 and ingest lines 130-134: the copy and its row
IgBundleIngested ==
    /\ IgToBeIngested
    /\ ~ig_dry_run
    /\ IgBundle.mp3 = AcqSha256(IgBundle)
    /\ IgBundle.yt_dlp_ok
    /\ LET file_id == generate_next_file_id(raw_manifest, ig_month)
       IN /\ ~RawAppendRejected(raw_manifest, file_id, IgBundle.mp3)
          /\ raw_files' = WriteFile(raw_files, file_id, IgBundle.mp3)
          /\ raw_manifest' = Append(raw_manifest,
                [file_id |-> file_id, acq_sha256 |-> AcqSha256(IgBundle),
                 sha256 |-> IgBundle.mp3, status |-> "active"])
    /\ processed_acq_sha256' = processed_acq_sha256 \cup {AcqSha256(IgBundle)}
    /\ IgCount("ingested")

\* ingest lines 144-160
IgReturn ==
    /\ ig_pc = "loop"
    /\ ig_i > Len(ig_bundles)
    /\ ig_pc' = "idle"
    /\ ig_runs' = ig_runs + 1
    /\ ig_real_runs' = ig_real_runs + (IF ig_dry_run THEN 0 ELSE 1)
    /\ UNCHANGED <<ig_bundles, raw_manifest, raw_files, ig_dry_run, ig_month, ig_i,
                   processed_acq_sha256, ig_start_shas, ingested_count, skipped_count,
                   failed_count, ig_outcomes>>
    /\ UNCHANGED notIngest

\* ----------------------------- acquire (pipeline/acquire/youtube.py)
\* File names and paths are strings as in the manifest model; a content is the
\* sha256 of a file's bytes.
MaxAcquireRuns == 3
MaxAcquireBundles == 2
MaxModifications == 1

\* the info_json names of the bundles, in sorted order
InfoJsonNames == <<<<"A.json">>, <<"B.json">>>>

\* what downloaded.mp3 may name: nothing, a plain name, a name ending in a
\* space, a name leaving the directory
AudioNames == {<<>>, <<"x.mp3">>, <<"x.mp3", " ">>, <<"..", "/x.mp3">>}

AcquireContents == {1, 2}

\* compute_file_checksum, as the string written to the manifest
Sha256Hex(content) == IF content = 1 THEN <<"sha1">> ELSE <<"sha2">>

\* str(asset_file.relative_to(data_dir)), _process_bundle line 158
AssetRelPath(name) == <<"acquisition/youtube/">> \o name

\* _determine_assets: the info_json itself, then the audio file if there is one
Assets(bundle) ==
    IF bundle.audio = <<>> THEN <<bundle.json>> ELSE <<bundle.json, bundle.audio>>

\* acquire lines 73-76: rel_path -> sha256 of the rows read, a later row winning
ExistingByRelPath(rows) ==
    LET paths == {rows[i].rel_path : i \in {j \in 1..Len(rows) : rows[j].rel_path # <<>>}}
        last(p) == CHOOSE i \in 1..Len(rows) :
                      /\ rows[i].rel_path = p
                      /\ \A j \in 1..Len(rows) : rows[j].rel_path = p => j <= i
    IN [p \in paths |-> rows[last(p)].sha256]

\* the arguments of the append_manifest_row call of lines 189-199
AcquireCall(rel_path, sha256) ==
    [file_id |-> <<>>, rel_path |-> rel_path, status |-> <<"active">>,
     sha256 |-> sha256, validate |-> "row"]

\* _process_bundle lines 161-162: the idempotency lookup, by the path as built
AssetKnown(rel_path, index) == rel_path \in DOMAIN index

\* _process_bundle lines 153-204 for one asset; st holds the manifest file, the
\* index, rows_added and the number of errors
ProcessAsset(st, name, content) ==
    LET rel_path == AssetRelPath(name)
        sha256 == Sha256Hex(content)
        call == AcquireCall(rel_path, sha256)
    IN IF AssetKnown(rel_path, st.index)
       THEN IF st.index[rel_path] = sha256
            THEN st
            ELSE [st EXCEPT !.errors = @ + 1]
       ELSE IF AppendRaises(st.exists, st.rows, "upstream", call)
            THEN [st EXCEPT !.errors = @ + 1]
            ELSE [exists |-> TRUE,
                  rows |-> Append(read_manifest(st.exists, st.rows), NewRow(call)),
                  index |-> [p \in DOMAIN st.index \cup {rel_path} |->
                                IF p = rel_path THEN sha256 ELSE st.index[p]],
                  added |-> st.added + 1,
                  errors |-> st.errors]

\* the loop of _process_bundle over the assets
RECURSIVE ProcessAssets(_, _, _)
ProcessAssets(st, names, content) ==
    IF names = <<>> THEN st
    ELSE ProcessAssets(ProcessAsset(st, Head(names), content[Head(names)]),
                       Tail(names), content)

AcquireBundleValues ==
    [has_id : BOOLEAN, audio : AudioNames]

FileNames == {InfoJsonNames[i] : i \in 1..MaxAcquireBundles} \cup (AudioNames \ {<<>>})

NoAcquireResult == [success |-> FALSE, rows_added |-> 0, dry_run |-> FALSE]

AcquireInit ==
    /\ \E len \in 1..MaxAcquireBundles :
          \E b \in [1..len -> AcquireBundleValues] :
              aq_bundles = [i \in 1..len |->
                              [has_id |-> b[i].has_id, json |-> InfoJsonNames[i],
                               audio |-> b[i].audio]]
    /\ aq_content = [name \in FileNames |-> 1]
    /\ aq_exists = FALSE
    /\ aq_rows = <<>>
    /\ aq_pc = "idle"
    /\ aq_i = 0
    /\ existing_by_rel_path = <<>>
    /\ aq_rows_added = 0
    /\ aq_errors = 0
    /\ aq_result = NoAcquireResult
    /\ aq_settled = FALSE
    /\ aq_rerun = FALSE
    /\ aq_runs = 0
    /\ aq_mods = 0

AcquireParked ==
    /\ aq_bundles = <<>>
    /\ aq_content = <<>>
    /\ aq_exists = FALSE
    /\ aq_rows = <<>>
    /\ aq_pc = "off"
    /\ aq_i = 0
    /\ existing_by_rel_path = <<>>
    /\ aq_rows_added = 0
    /\ aq_errors = 0
    /\ aq_result = NoAcquireResult
    /\ aq_settled = FALSE
    /\ aq_rerun = FALSE
    /\ aq_runs = 0
    /\ aq_mods = 0

\* between two runs a file of the directory is replaced by other bytes
AqModify ==
    /\ aq_pc = "idle"
    /\ aq_mods < MaxModifications
    /\ \E name \in FileNames : \E c \in AcquireContents \ {aq_content[name]} :
          aq_content' = [aq_content EXCEPT ![name] = c]
    /\ aq_mods' = aq_mods + 1
    /\ aq_settled' = FALSE
    /\ UNCHANGED <<aq_bundles, aq_exists, aq_rows, aq_pc, aq_i, existing_by_rel_path,
                   aq_rows_added, aq_errors, aq_result, aq_rerun, aq_runs>>
    /\ UNCHANGED notAcquire

\* acquire lines 64-70: a dry run returns before the manifest is read
AqDryRun ==
    /\ aq_pc = "idle"
    /\ aq_runs < MaxAcquireRuns
    /\ aq_result' = [success |-> TRUE, rows_added |-> 0, dry_run |-> TRUE]
    /\ aq_runs' = aq_runs + 1
    /\ UNCHANGED <<aq_bundles, aq_content, aq_exists, aq_rows, aq_pc, aq_i,
                   existing_by_rel_path, aq_rows_added, aq_errors, aq_settled, aq_rerun,
                   aq_mods>>
    /\ UNCHANGED notAcquire

\* acquire lines 72-80: the manifest is read and indexed
AqStart ==
    /\ aq_pc = "idle"
    /\ aq_runs < MaxAcquireRuns
    /\ aq_pc' = "loop"
    /\ aq_i' = 1
    /\ existing_by_rel_path' = ExistingByRelPath(read_manifest(aq_exists, aq_rows))
    /\ aq_rows_added' = 0
    /\ aq_errors' = 0
    /\ aq_rerun' = aq_settled
    /\ UNCHANGED <<aq_bundles, aq_content, aq_exists, aq_rows, aq_result, aq_settled,
                   aq_runs, aq_mods>>
    /\ UNCHANGED notAcquire

\* _process_bundle lines 139-143: no youtube_id
AqBundleNoId ==
    /\ aq_pc = "loop"
    /\ aq_i <= Len(aq_bundles)
    /\ ~aq_bundles[aq_i].has_id
    /\ aq_i' = aq_i + 1
    /\ aq_errors' = aq_errors + 1
    /\ UNCHANGED <<aq_bundles, aq_content, aq_exists, aq_rows, aq_pc,
                   existing_by_rel_path, aq_rows_added, aq_result, aq_settled, aq_rerun,
                   aq_runs, aq_mods>>
    /\ UNCHANGED notAcquire

\* _process_bundle lines 145-206 and acquire lines 91-94: the bundle's assets
AqBundle ==
    /\ aq_pc = "loop"
    /\ aq_i <= Len(aq_bundles)
    /\ aq_bundles[aq_i].has_id
    /\ LET st == ProcessAssets([exists |-> aq_exists, rows |-> aq_rows,
                                index |-> existing_by_rel_path, added |-> 0,
                                errors |-> 0],
                               Assets(aq_bundles[aq_i]), aq_content)
       IN /\ aq_exists' = st.exists
          /\ aq_rows' = st.rows
          /\ existing_by_rel_path' = st.index
          /\ aq_rows_added' = aq_rows_added + st.added
          /\ aq_errors' = aq_errors + st.errors
    /\ aq_i' = aq_i + 1
    /\ UNCHANGED <<aq_bundles, aq_content, aq_pc, aq_result, aq_settled, aq_rerun,
                   aq_runs, aq_mods>>
    /\ UNCHANGED notAcquire

\* acquire lines 98-109
AqReturn ==
    /\ aq_pc = "loop"
    /\ aq_i > Len(aq_bundles)
    /\ aq_pc' = "idle"
    /\ aq_result' = [success |-> aq_errors = 0, rows_added |-> aq_rows_added,
                     dry_run |-> FALSE]
    /\ aq_settled' = (aq_errors = 0)
    /\ aq_runs' = aq_runs + 1
    /\ UNCHANGED <<aq_bundles, aq_content, aq_exists, aq_rows, aq_i,
                   existing_by_rel_path, aq_rows_added, aq_errors, aq_rerun, aq_mods>>
    /\ UNCHANGED notAcquire

\* ------------------ marker ordering (reaper/markers_session.py lines 353-437)
MaxMarkers == 3
MaxPosition == 1

HEAD_IN_START == "HEAD_IN_START"
HEAD_IN_END == "HEAD_IN_END"
HEAD_OUT_START == "HEAD_OUT_START"
HEAD_OUT_END == "HEAD_OUT_END"

\* The marker names of the model: regular names (one of them a lick name in
\* lower case, which LICK_MARKER_PATTERN does not match), head names in
\* canonical, dash and lower-case spelling, lick names with underscore and dash
MarkerNames ==
    {"A", "lick01_start",
     "HEAD_IN_START", "HEAD-IN-END", "head_out_start", "HEAD_OUT_END",
     "LICK01_START", "LICK01-END", "LICK02_START", "LICK02_END"}

\* HEAD_MARKER_PATTERN.match(name), case-insensitive, dash or underscore
is_head_marker(name) ==
    name \in {"HEAD_IN_START", "HEAD_IN_END", "HEAD_OUT_START", "HEAD_OUT_END",
              "HEAD-IN-END", "head_out_start"}

\* parse_lick_marker: <<lick_number, phase>>, or <<>> for None
parse_lick_marker(name) ==
    CASE name \in {"LICK01_START"} -> <<1, "START">>
      [] name \in {"LICK01_END", "LICK01-END"} -> <<1, "END">>
      [] name \in {"LICK02_START"} -> <<2, "START">>
      [] name \in {"LICK02_END"} -> <<2, "END">>
      [] OTHER -> <<>>

\* LICK_MARKER_PATTERN.match(name)
is_lick_marker(name) == parse_lick_marker(name) # <<>>

\* normalize_marker_name: the canonical spelling of a head or lick name
normalize_marker_name(name) ==
    CASE name = "HEAD-IN-END" -> HEAD_IN_END
      [] name = "head_out_start" -> HEAD_OUT_START
      [] name = "LICK01-END" -> "LICK01_END"
      [] OTHER -> name

\* order_map.get(name, len(head_marker_order)), lines 398-407
HeadSortKey(name) ==
    CASE name = HEAD_IN_START -> 0
      [] name = HEAD_IN_END -> 1
      [] name = HEAD_OUT_START -> 2
      [] name = HEAD_OUT_END -> 3
      [] OTHER -> 4

\* the mutation of lick_sort_key that puts END before START
lick_sort_key_EndFirst(name) ==
    LET parsed == parse_lick_marker(name)
    IN IF parsed # <<>>
       THEN 2 * parsed[1] + (IF parsed[2] = "START" THEN 1 ELSE 0)
       ELSE 2 * 999999 + 1

\* lick_sort_key: the pair (lick_number, phase_order) as the integer
\* 2 * lick_number + phase_order, which orders as the pair does
lick_sort_key(name) ==
    LET parsed == parse_lick_marker(name)
    IN IF parsed # <<>>
       THEN 2 * parsed[1] + (IF parsed[2] = "START" THEN 0 ELSE 1)
       ELSE 2 * 999999 + 1

\* sorted(seq, key=...): Python's sort is stable
StableSort(seq, keys) ==
    LET rank(i) == Cardinality({j \in 1..Len(seq) :
                                   keys[j] < keys[i] \/ (keys[j] = keys[i] /\ j < i)}) + 1
    IN [r \in 1..Len(seq) |-> seq[CHOOSE i \in 1..Len(seq) : rank(i) = r]]

IsHead(marker) == is_head_marker(marker.name)
IsLick(marker) == ~is_head_marker(marker.name) /\ is_lick_marker(marker.name)
IsRegular(marker) == ~is_head_marker(marker.name) /\ ~is_lick_marker(marker.name)

\* _order_markers_in_entry
order_markers_in_entry(entry) ==
    LET markers == [i \in 1..Len(entry.markers) |->
                       [entry.markers[i] EXCEPT !.name = normalize_marker_name(@)]]
        regular_markers == SelectSeq(markers, IsRegular)
        head_markers == SelectSeq(markers, IsHead)
        lick_markers == SelectSeq(markers, IsLick)
        sorted_regular == StableSort(regular_markers,
                              [i \in 1..Len(regular_markers) |-> regular_markers[i].position])
        sorted_head == StableSort(head_markers,
                              [i \in 1..Len(head_markers) |-> HeadSortKey(head_markers[i].name)])
        sorted_lick == StableSort(lick_markers,
                              [i \in 1..Len(lick_markers) |-> lick_sort_key(lick_markers[i].name)])
        sorted_markers == sorted_regular \o sorted_head \o sorted_lick
    IN [markers |-> [i \in 1..Len(sorted_markers) |->
                        [sorted_markers[i] EXCEPT !.number = i]],
        count |-> Len(sorted_markers)]

\* a marker as parsed: guid tells the markers of an entry apart
MarkerValues(len) ==
    [1..len -> [name : MarkerNames, position : 0..MaxPosition]]

OrderInit ==
    /\ om_pc = "call"
    /\ \E len \in 0..MaxMarkers : \E m \in MarkerValues(len) :
          om_entry = [markers |-> [i \in 1..len |->
                                     [name |-> m[i].name, position |-> m[i].position,
                                      number |-> i, guid |-> i]],
                      count |-> len]
    /\ om_result = <<>>

OrderParked ==
    /\ om_pc = "off"
    /\ om_entry = <<>>
    /\ om_result = <<>>

OmOrder ==
    /\ om_pc = "call"
    /\ om_pc' = "done"
    /\ om_result' = order_markers_in_entry(om_entry)
    /\ UNCHANGED om_entry
    /\ UNCHANGED notOrder

\* ------------------------------------------------ create_markers_session
\* reaper/markers_session.py: a Reaper session file is generated for an audio
\* file from a template, the track chunk and the newest marker annotation.
MaxSessionCalls == 2

\* the paths the function touches
SessionPaths == {"audio_file", "DEFAULT_TEMPLATE", "annotation_file", "session_path"}

\* a file's content; the same record shape for every file
FileContent(kind, markers, guid) == [kind |-> kind, markers |-> markers, guid |-> guid]
Absent == FileContent("absent", "", "")

\* the extensions _get_source_type maps to a source type
SupportedExtensions == {".wav", ".mp3", ".flac", ".m4a"}
AudioExtensions == {".wav", ".xyz"}

\* the GUIDs uuid4 may draw for the track of a generated session
GuidValues == {"guid1", "guid2"}

\* what the annotation file yields: the markers of the old format or of the
\* newest entry, nothing when it is missing or does not parse
markers_data(annotation) ==
    IF annotation.kind \in {"annotation_old_format", "annotation_entries"}
    THEN "markers" ELSE "no markers"

\* the template with the marker lines and the track chunk inserted
new_content(files, guid) ==
    FileContent("session", markers_data(files["annotation_file"]), guid)

\* lines 212-214: an existing session file is deleted
UnlinkSession(files) == [files EXCEPT !["session_path"] = Absent]

SessionInit ==
    /\ \E audio \in {Absent, FileContent("audio", "", "")} :
       \E template \in {Absent, FileContent("template", "", ""),
                        FileContent("template_no_closing", "", "")} :
       \E annotation \in {Absent, FileContent("annotation_old_format", "", ""),
                          FileContent("annotation_entries", "", ""),
                          FileContent("annotation_unparsable", "", "")} :
       \E session \in {Absent, FileContent("session", "markers", "guid0")} :
          ss_files = [p \in SessionPaths |->
                        CASE p = "audio_file" -> audio
                          [] p = "DEFAULT_TEMPLATE" -> template
                          [] p = "annotation_file" -> annotation
                          [] OTHER -> session]
    /\ ss_ext \in AudioExtensions
    /\ ss_dry_run = FALSE
    /\ ss_outcome = "none"
    /\ ss_before = ss_files
    /\ ss_calls = 0

SessionParked ==
    /\ ss_files = <<>>
    /\ ss_ext = ""
    /\ ss_dry_run = FALSE
    /\ ss_outcome = "off"
    /\ ss_before = <<>>
    /\ ss_calls = 0

\* what every call does first: the arguments and the file system before it
SsEnter(dry_run) ==
    /\ ss_calls < MaxSessionCalls
    /\ ss_calls' = ss_calls + 1
    /\ ss_dry_run' = dry_run
    /\ ss_before' = ss_files
    /\ UNCHANGED ss_ext
    /\ UNCHANGED notSession

\* lines 203-204: the audio file does not exist
SsAudioNotFound ==
    \E dry_run \in BOOLEAN :
       /\ SsEnter(dry_run)
       /\ ss_files["audio_file"] = Absent
       /\ ss_outcome' = "FileNotFoundError"
       /\ UNCHANGED ss_files

\* lines 206-207: the template does not exist
SsTemplateNotFound ==
    \E dry_run \in BOOLEAN :
       /\ SsEnter(dry_run)
       /\ ss_files["audio_file"] # Absent
       /\ ss_files["DEFAULT_TEMPLATE"] = Absent
       /\ ss_outcome' = "FileNotFoundError"
       /\ UNCHANGED ss_files

\* line 256, _get_source_type: the extension is not supported; the existing
\* session file is already deleted
SsUnsupportedFormat ==
    \E dry_run \in BOOLEAN :
       /\ SsEnter(dry_run)
       /\ ss_files["audio_file"] # Absent
       /\ ss_files["DEFAULT_TEMPLATE"] # Absent
       /\ ss_ext \notin SupportedExtensions
       /\ ss_files' = UnlinkSession(ss_files)
       /\ ss_outcome' = "ValueError"

\* lines 295-296: the template has no closing line
SsTemplateNoClosing ==
    \E dry_run \in BOOLEAN :
       /\ SsEnter(dry_run)
       /\ ss_files["audio_file"] # Absent
       /\ ss_files["DEFAULT_TEMPLATE"].kind = "template_no_closing"
       /\ ss_ext \in SupportedExtensions
       /\ ss_files' = UnlinkSession(ss_files)
       /\ ss_outcome' = "ValueError"

\* lines 318-325: the dry run returns after the content is computed
SsDryRun ==
    /\ SsEnter(TRUE)
    /\ ss_files["audio_file"] # Absent
    /\ ss_files["DEFAULT_TEMPLATE"].kind = "template"
    /\ ss_ext \in SupportedExtensions
    /\ ss_files' = UnlinkSession(ss_files)
    /\ ss_outcome' = "returned"

\* lines 327-350: the session file is written
SsCreate ==
    \E guid \in GuidValues :
       /\ SsEnter(FALSE)
       /\ ss_files["audio_file"] # Absent
       /\ ss_files["DEFAULT_TEMPLATE"].kind = "template"
       /\ ss_ext \in SupportedExtensions
       /\ ss_files' = [UnlinkSession(ss_files) EXCEPT
                          !["session_path"] = new_content(ss_files, guid)]
       /\ ss_outcome' = "returned"

\* ------------------------------------------------ the novelty grid sweep
\* widget_novelty.py _compute_novelty_batch_shared_stft, one loop body per
\* step. Values are the terms of the computation: which signal, window, hop,
\* gamma and M a stored curve was computed from.
RECURSIVE AscendingList(_)
\* the list of a grid's values; widget_common.py lists them in ascending order
AscendingList(S) ==
    IF S = {} THEN <<>>
    ELSE LET m == CHOOSE x \in S : \A y \in S : x <= y
         IN <<m>> \o AscendingList(S \ {m})

RECURSIVE FlattenSeq(_)
\* the concatenation of a sequence of sequences
FlattenSeq(ss) == IF ss = <<>> THEN <<>> ELSE Head(ss) \o FlattenSeq(Tail(ss))

HopList == AscendingList(HOP_VALUES)
GammaList == AscendingList(GAMMA_VALUES)
LocalMList == AscendingList(LOCAL_M_VALUES)

\* None in the key of a phase variant; every gamma of the grid is positive
NoGamma == -1

\* NOVELTY_DEFAULTS[method]["N"] for the four methods
GridN(method) == IF method = "energy" THEN 2048 ELSE 1024

\* _novelty_grid_keys: the list of keys, in the order of its loops
novelty_grid_keys ==
    FlattenSeq([mi \in 1..4 |->
       LET method == <<"energy", "spectral", "phase", "complex">>[mi]
       IN FlattenSeq([hi \in 1..Len(HopList) |->
            LET H == HopList[hi]
            IN CASE method = "energy" ->
                      [gi \in 1..Len(GammaList) |->
                          <<method, GridN(method), H, GammaList[gi], 0>>]
                 [] method = "phase" ->
                      [mm \in 1..Len(LocalMList) |->
                          <<method, GridN(method), H, NoGamma, LocalMList[mm]>>]
                 [] OTHER ->
                      FlattenSeq([gi \in 1..Len(GammaList) |->
                         [mm \in 1..Len(LocalMList) |->
                             <<method, GridN(method), H, GammaList[gi], LocalMList[mm]>>]])])])

GridStep(op, method, H, gamma, M) ==
    [op |-> op, method |-> method, H |-> H, gamma |-> gamma, M |-> M]

\* the steps below one "for gamma" of spectral and complex, or below the
\* phase difference of phase: nov_base, then one store per M
BaseSteps(method, H, gamma) ==
    <<GridStep("base", method, H, gamma, 0)>>
    \o [mm \in 1..Len(LocalMList) |-> GridStep("store", method, H, gamma, LocalMList[mm])]

\* lines 117-194: the steps of the sweep in the order of the loops
BatchSteps ==
    FlattenSeq([mi \in 1..3 |->
       LET method == <<"spectral", "phase", "complex">>[mi]
       IN FlattenSeq([hi \in 1..Len(HopList) |->
            LET H == HopList[hi]
            IN <<GridStep("stft", method, H, 0, 0)>>
               \o (IF method = "phase" THEN BaseSteps(method, H, NoGamma)
                   ELSE FlattenSeq([gi \in 1..Len(GammaList) |->
                                       BaseSteps(method, H, GammaList[gi])]))])])
    \o FlattenSeq([hi \in 1..Len(HopList) |->
          [gi \in 1..Len(GammaList) |->
              GridStep("energy", "energy", HopList[hi], GammaList[gi], 0)]])

\* librosa.stft(x, n_fft=N, hop_length=H, ...), also the frames of the energy
Stft(x, NN, H) == [x |-> x, N |-> NN, H |-> H]
NoStft == Stft("", 0, 0)

\* nov_base of a method from an STFT and a gamma
NovBase(method, X, gamma) == [method |-> method, input |-> X, gamma |-> gamma]

\* (nov, nov_100) from nov_base: local average of M subtracted, normalised,
\* resampled
StoredValue(base, M) == [base |-> base, M |-> M]

\* the key of a store, from the loop variables
GridStoreKey_NoM(method, NN, H, gamma, M) == <<method, NN, H, gamma, 0>>
GridStoreKey(method, NN, H, gamma, M) == <<method, NN, H, gamma, M>>

\* novelty_cache[key] = value
CachePut(cache, key, value) ==
    [kk \in (DOMAIN cache) \cup {key} |-> IF kk = key THEN value ELSE cache[kk]]

\* one cell of the grid computed on its own from the signal and its key
CellValue(x, key) ==
    StoredValue(NovBase(key[1], Stft(x, key[2], key[3]), key[4]), key[5])

GridSignals == {"x1", "x2"}

GridInit ==
    /\ gr_x \in GridSignals
    /\ gr_pc = 1
    /\ gr_returned = FALSE
    /\ gr_X = NoStft
    /\ gr_nov_base = NovBase("", NoStft, 0)
    /\ gr_cache = <<>>
    /\ gr_stft_count = [p \in {GridN("spectral")} \X HOP_VALUES |-> 0]
    /\ gr_par = <<>>

GridParked ==
    /\ gr_x = ""
    /\ gr_pc = 0
    /\ gr_returned = FALSE
    /\ gr_X = NoStft
    /\ gr_nov_base = NovBase("", NoStft, 0)
    /\ gr_cache = <<>>
    /\ gr_stft_count = <<>>
    /\ gr_par = <<>>

GrAt(op) ==
    /\ gr_pc \in 1..Len(BatchSteps)
    /\ BatchSteps[gr_pc].op = op
    /\ gr_pc' = gr_pc + 1
    /\ UNCHANGED <<gr_x, gr_returned, gr_par>>
    /\ UNCHANGED notGrid

\* line 121: X = librosa.stft(x, n_fft=N, hop_length=H, ...)
GrStft ==
    LET s == BatchSteps[gr_pc]
        pair == <<GridN(s.method), s.H>>
    IN /\ GrAt("stft")
       /\ gr_X' = Stft(gr_x, GridN(s.method), s.H)
       /\ gr_stft_count' = [gr_stft_count EXCEPT ![pair] = @ + 1]
       /\ UNCHANGED <<gr_nov_base, gr_cache>>

\* lines 126-130, 144-148, 162-173: nov_base from X and gamma
GrBase ==
    LET s == BatchSteps[gr_pc]
    IN /\ GrAt("base")
       /\ gr_nov_base' = NovBase(s.method, gr_X, s.gamma)
       /\ UNCHANGED <<gr_X, gr_cache, gr_stft_count>>

\* lines 131-141, 149-159, 174-184: one variant stored
GrStore ==
    LET s == BatchSteps[gr_pc]
    IN /\ GrAt("store")
       /\ gr_cache' = CachePut(gr_cache,
                               GridStoreKey(s.method, GridN(s.method), s.H, s.gamma, s.M),
                               StoredValue(gr_nov_base, s.M))
       /\ UNCHANGED <<gr_X, gr_nov_base, gr_stft_count>>

\* lines 186-194: the energy variants, by compute_novelty_energy
GrEnergy ==
    LET s == BatchSteps[gr_pc]
    IN /\ GrAt("energy")
       /\ gr_cache' = CachePut(gr_cache,
                               GridStoreKey("energy", GridN("energy"), s.H, s.gamma, 0),
                               StoredValue(NovBase("energy",
                                                   Stft(gr_x, GridN("energy"), s.H),
                                                   s.gamma), 0))
       /\ UNCHANGED <<gr_X, gr_nov_base, gr_stft_count>>

\* lines 210-213: eager_compute_novelty returns the cache
GrReturn ==
    /\ gr_pc = Len(BatchSteps) + 1
    /\ ~gr_returned
    /\ gr_returned' = TRUE
    /\ UNCHANGED <<gr_x, gr_pc, gr_X, gr_nov_base, gr_cache, gr_stft_count, gr_par>>
    /\ UNCHANGED notGrid

\* the same grid computed cell by cell in an arbitrary order, one atomic
\* cache write per key
GrCell ==
    /\ gr_returned
    /\ \E i \in 1..Len(novelty_grid_keys) :
          /\ novelty_grid_keys[i] \notin DOMAIN gr_par
          /\ gr_par' = CachePut(gr_par, novelty_grid_keys[i],
                                CellValue(gr_x, novelty_grid_keys[i]))
    /\ UNCHANGED <<gr_x, gr_pc, gr_returned, gr_X, gr_nov_base, gr_cache, gr_stft_count>>
    /\ UNCHANGED notGrid

\* ------------------------------------------------------------ read_markers
\* reaper/markers_session.py read_markers: the markers of a Reaper project are
\* parsed, ordered and prepended to the history kept in the markers JSON file.
\* A marker carries name, position, number and guid; color, flags and locked
\* are the same for every marker here.
MaxReads == 3

\* the stems of the project files: a then "-markers" or "_markers"
RppPaths == {<<"a", "-markers">>, <<"a", "_markers">>}

\* lines 552-559: the stem of the output file
OutputStem(stem) ==
    IF stem[Len(stem)] = "-markers" THEN SubSeq(stem, 1, Len(stem) - 1) \o <<"_markers">>
    ELSE IF stem[Len(stem)] = "_markers" THEN stem
    ELSE stem \o <<"_markers">>

RppMarker(name, position, number, guid) ==
    [name |-> name, position |-> position, number |-> number, guid |-> guid]

\* the MARKER lines a project file may hold
RppContents ==
    {<<>>,
     <<RppMarker("A", 0, 1, 1)>>,
     <<RppMarker("A", 0, 1, 2)>>,
     <<RppMarker("A", 1, 1, 1), RppMarker("HEAD-IN-END", 0, 2, 2)>>}

\* a project file: whether it exists and its markers
RppFile(exists, markers) == [exists |-> exists, markers |-> markers]
NoRpp == RppFile(FALSE, <<>>)

\* sorted(markers, key=number)
SortByNumber(markers) ==
    StableSort(markers, [i \in 1..Len(markers) |-> markers[i].number])

\* _markers_are_equal: same length and, in number order, the same name,
\* position and number; the guid is not compared
markers_are_equal(markers1, markers2) ==
    /\ Len(markers1) = Len(markers2)
    /\ LET sorted1 == SortByNumber(markers1)
           sorted2 == SortByNumber(markers2)
       IN \A i \in 1..Len(sorted1) :
             /\ sorted1[i].name = sorted2[i].name
             /\ sorted1[i].position = sorted2[i].position
             /\ sorted1[i].number = sorted2[i].number

\* lines 546-575: new_entry, ordered
NewEntry(content, timestamp) ==
    LET ordered == order_markers_in_entry([markers |-> SortByNumber(content),
                                           count |-> Len(content)])
    IN [timestamp |-> timestamp, count |-> ordered.count, markers |-> ordered.markers]

\* the JSON file: absent, not parsable, the old format (rpp_file, count and
\* markers, kept here as one entry without a timestamp) or rpp_file and entries
JsonFile(kind, rpp_file, entries) == [kind |-> kind, rpp_file |-> rpp_file, entries |-> entries]
NoJson == JsonFile("absent", <<>>, <<>>)
Unparsable == JsonFile("unparsable", <<>>, <<>>)

\* lines 586-603: existing_data, the old format converted
ExistingData(json, timestamp) ==
    IF json.kind = "old"
    THEN JsonFile("entries", json.rpp_file,
                  <<[timestamp |-> timestamp, count |-> json.entries[1].count,
                     markers |-> json.entries[1].markers]>>)
    ELSE json

\* lines 636-646: a file with the new entry alone
FreshFile(path, new_entry) == JsonFile("entries", path, <<new_entry>>)

\* lines 678-684: the project file is deleted after the write
UnlinkRpp(rpp, path) == [rpp EXCEPT ![path] = NoRpp]

HistoryInit ==
    /\ rm_rpp \in [RppPaths -> {NoRpp, RppFile(TRUE, <<RppMarker("A", 0, 1, 1)>>)}]
    /\ \/ rm_json \in {NoJson, Unparsable}
       \/ \E p \in RppPaths : \E c \in {<<>>, <<RppMarker("A", 0, 1, 1)>>} :
             rm_json = JsonFile("old", p, <<[timestamp |-> 0, count |-> Len(c), markers |-> c]>>)
    /\ rm_clock = 0
    /\ rm_path = <<>>
    /\ rm_new = <<>>
    /\ rm_outcome = "none"
    /\ rm_before_json = rm_json
    /\ rm_before_rpp = rm_rpp

HistoryParked ==
    /\ rm_rpp = <<>>
    /\ rm_json = NoJson
    /\ rm_clock = 0
    /\ rm_path = <<>>
    /\ rm_new = <<>>
    /\ rm_outcome = "off"
    /\ rm_before_json = NoJson
    /\ rm_before_rpp = <<>>

\* a project file is saved from Reaper
RmSaveRpp ==
    /\ rm_outcome # "off"
    /\ \E path \in RppPaths : \E content \in RppContents :
          /\ rm_rpp[path] # RppFile(TRUE, content)
          /\ rm_rpp' = [rm_rpp EXCEPT ![path] = RppFile(TRUE, content)]
    /\ rm_outcome' = "none"
    /\ UNCHANGED <<rm_json, rm_clock, rm_path, rm_new, rm_before_json, rm_before_rpp>>
    /\ UNCHANGED notHistory

\* what every call does first
RmCall(path) ==
    /\ rm_outcome # "off"
    /\ rm_clock < MaxReads
    /\ rm_clock' = rm_clock + 1
    /\ rm_path' = path
    /\ rm_before_json' = rm_json
    /\ rm_before_rpp' = rm_rpp
    /\ UNCHANGED notHistory

\* lines 488-490: the project file does not exist
RmNotFound ==
    \E path \in RppPaths :
       /\ RmCall(path)
       /\ rm_rpp[path] = NoRpp
       /\ rm_outcome' = "FileNotFoundError"
       /\ rm_new' = <<>>
       /\ UNCHANGED <<rm_rpp, rm_json>>

\* the call writes output_data and deletes the project file, lines 649-692
RmWrite(path, output_data, new_entry) ==
    /\ rm_json' = output_data
    /\ rm_rpp' = UnlinkRpp(rm_rpp, path)
    /\ rm_new' = new_entry.markers
    /\ rm_outcome' = "returned"

\* lines 641-647: there is no JSON file yet
RmNewFile ==
    \E path \in RppPaths :
       LET new_entry == NewEntry(rm_rpp[path].markers, rm_clock + 1)
       IN /\ RmCall(path)
          /\ rm_rpp[path] # NoRpp
          /\ rm_json.kind = "absent"
          /\ RmWrite(path, FreshFile(path, new_entry), new_entry)

\* lines 634-640: the JSON file does not parse
RmStartFresh ==
    \E path \in RppPaths :
       LET new_entry == NewEntry(rm_rpp[path].markers, rm_clock + 1)
       IN /\ RmCall(path)
          /\ rm_rpp[path] # NoRpp
          /\ rm_json.kind = "unparsable"
          /\ RmWrite(path, FreshFile(path, new_entry), new_entry)

\* lines 605-611 and 634-640: the file references another project; the
\* ValueError raised at line 608 is caught at line 634
RmMismatch ==
    \E path \in RppPaths :
       LET new_entry == NewEntry(rm_rpp[path].markers, rm_clock + 1)
       IN /\ RmCall(path)
          /\ rm_rpp[path] # NoRpp
          /\ rm_json.kind \in {"old", "entries"}
          /\ ExistingData(rm_json, rm_clock + 1).rpp_file # path
          /\ RmWrite(path, FreshFile(path, new_entry), new_entry)

\* lines 613-620: the markers are those of the most recent entry
RmUnchanged ==
    \E path \in RppPaths :
       LET new_entry == NewEntry(rm_rpp[path].markers, rm_clock + 1)
           existing_data == ExistingData(rm_json, rm_clock + 1)
       IN /\ RmCall(path)
          /\ rm_rpp[path] # NoRpp
          /\ rm_json.kind \in {"old", "entries"}
          /\ existing_data.rpp_file = path
          /\ markers_are_equal(new_entry.markers, existing_data.entries[1].markers)
          /\ rm_new' = new_entry.markers
          /\ rm_outcome' = "returned"
          /\ UNCHANGED <<rm_rpp, rm_json>>

\* lines 621-626: the markers changed, the new entry is prepended
RmPrepend ==
    \E path \in RppPaths :
       LET new_entry == NewEntry(rm_rpp[path].markers, rm_clock + 1)
           existing_data == ExistingData(rm_json, rm_clock + 1)
       IN /\ RmCall(path)
          /\ rm_rpp[path] # NoRpp
          /\ rm_json.kind \in {"old", "entries"}
          /\ existing_data.rpp_file = path
          /\ ~markers_are_equal(new_entry.markers, existing_data.entries[1].markers)
          /\ RmWrite(path,
                     JsonFile("entries", path, <<new_entry>> \o existing_data.entries),
                     new_entry)

\* ---------------------------------------------------------- specifications
InitBeats == BeatsInit /\ MeterParked /\ ChromaParked /\ NoveltyParked /\ CacheParked /\ PipelineParked
    /\ BeatRefParked /\ ManifestParked /\ IngestParked /\ AcquireParked /\ OrderParked /\ SessionParked /\ GridParked /\ HistoryParked

NextBeats ==
    \/ BtSetup
    \/ BtForwardStep
    \/ BtStartBacktrack
    \/ BtBacktrackStep
    \/ BtReturn
    \/ RbWrite
    \/ RbFail

SpecBeats == InitBeats /\ [][NextBeats]_vars

InitMeter == MeterInit /\ BeatsParked /\ ChromaParked /\ NoveltyParked /\ CacheParked /\ PipelineParked
    /\ BeatRefParked /\ ManifestParked /\ IngestParked /\ AcquireParked /\ OrderParked /\ SessionParked /\ GridParked /\ HistoryParked

NextMeter ==
    \/ MtCall
    \/ MtEstimateStart
    \/ MtCandidate
    \/ MtEstimateReturn
    \/ MtLabelStart
    \/ MtLabelStep
    \/ MtLabelReturn

SpecMeter == InitMeter /\ [][NextMeter]_vars

InitChroma == ChromaInit /\ BeatsParked /\ MeterParked /\ NoveltyParked /\ CacheParked /\ PipelineParked
    /\ BeatRefParked /\ ManifestParked /\ IngestParked /\ AcquireParked /\ OrderParked /\ SessionParked /\ GridParked /\ HistoryParked

NextChroma ==
    \/ CcPrepare
    \/ CcBins
    \/ CcBinPlain
    \/ CcReturnPlain
    \/ CcWeightedEnter
    \/ CcBinWeighted
    \/ CcReturnWeighted

SpecChroma == InitChroma /\ [][NextChroma]_vars

InitNovelty == NoveltyInit /\ BeatsParked /\ MeterParked /\ ChromaParked /\ CacheParked /\ PipelineParked
    /\ BeatRefParked /\ ManifestParked /\ IngestParked /\ AcquireParked /\ OrderParked /\ SessionParked /\ GridParked /\ HistoryParked

NextNovelty ==
    \/ NvCompute
    \/ NvLocalAverage
    \/ NvNormalize
    \/ NvResample

SpecNovelty == InitNovelty /\ [][NextNovelty]_vars

InitCache == CacheInit /\ BeatsParked /\ MeterParked /\ ChromaParked /\ NoveltyParked /\ PipelineParked
    /\ BeatRefParked /\ ManifestParked /\ IngestParked /\ AcquireParked /\ OrderParked /\ SessionParked /\ GridParked /\ HistoryParked

NextCache ==
    \/ EagerComputeNovelty
    \/ GetNoveltyHit
    \/ GetNoveltyMiss
    \/ GetTempogramHit
    \/ GetTempogramMiss

SpecCache == InitCache /\ [][NextCache]_vars

InitPipeline ==
    PipelineInit /\ BeatsParked /\ MeterParked /\ ChromaParked /\ NoveltyParked
    /\ CacheParked /\ BeatRefParked /\ ManifestParked /\ IngestParked /\ AcquireParked /\ OrderParked /\ SessionParked /\ GridParked /\ HistoryParked

NextPipeline ==
    \/ PlReject
    \/ PlNoFiles
    \/ PlStart
    \/ PlItemMissing
    \/ PlItemSuccess
    \/ PlItemFail
    \/ PlReturn
    \/ PlDispatch

SpecPipeline == InitPipeline /\ [][NextPipeline]_vars

InitBeatRef ==
    BeatRefInit /\ BeatsParked /\ MeterParked /\ ChromaParked /\ NoveltyParked
    /\ CacheParked /\ PipelineParked /\ ManifestParked /\ IngestParked /\ AcquireParked /\ OrderParked /\ SessionParked /\ GridParked /\ HistoryParked

NextBeatRef ==
    \/ RfSaveTempogram
    \/ RfTempo
    \/ RfBeatRef

SpecBeatRef == InitBeatRef /\ [][NextBeatRef]_vars

InitManifest ==
    ManifestInit /\ BeatsParked /\ MeterParked /\ ChromaParked /\ NoveltyParked
    /\ CacheParked /\ PipelineParked /\ BeatRefParked /\ IngestParked /\ AcquireParked /\ OrderParked /\ SessionParked /\ GridParked /\ HistoryParked

NextManifest ==
    \/ AppendManifestRow
    \/ AppendManifestRowRaises

SpecManifest == InitManifest /\ [][NextManifest]_vars

InitIngest ==
    IngestInit /\ BeatsParked /\ MeterParked /\ ChromaParked /\ NoveltyParked
    /\ CacheParked /\ PipelineParked /\ BeatRefParked /\ ManifestParked /\ AcquireParked /\ OrderParked /\ SessionParked /\ GridParked /\ HistoryParked

NextIngest ==
    \/ IgStart
    \/ IgBundleNoId
    \/ IgBundleSkipped
    \/ IgBundleDryRun
    \/ IgBundleMismatch
    \/ IgBundleMetaError
    \/ IgBundleAppendRejected
    \/ IgBundleIngested
    \/ IgReturn

SpecIngest == InitIngest /\ [][NextIngest]_vars

InitAcquire ==
    AcquireInit /\ BeatsParked /\ MeterParked /\ ChromaParked /\ NoveltyParked
    /\ CacheParked /\ PipelineParked /\ BeatRefParked /\ ManifestParked
    /\ IngestParked /\ OrderParked /\ SessionParked /\ GridParked /\ HistoryParked

NextAcquire ==
    \/ AqModify
    \/ AqDryRun
    \/ AqStart
    \/ AqBundleNoId
    \/ AqBundle
    \/ AqReturn

SpecAcquire == InitAcquire /\ [][NextAcquire]_vars

InitOrder ==
    OrderInit /\ BeatsParked /\ MeterParked /\ ChromaParked /\ NoveltyParked
    /\ CacheParked /\ PipelineParked /\ BeatRefParked /\ ManifestParked
    /\ IngestParked /\ AcquireParked /\ SessionParked /\ GridParked /\ HistoryParked

NextOrder ==
    \/ OmOrder

SpecOrder == InitOrder /\ [][NextOrder]_vars

InitSession ==
    SessionInit /\ BeatsParked /\ MeterParked /\ ChromaParked /\ NoveltyParked
    /\ CacheParked /\ PipelineParked /\ BeatRefParked /\ ManifestParked
    /\ IngestParked /\ AcquireParked /\ OrderParked /\ GridParked /\ HistoryParked

NextSession ==
    \/ SsAudioNotFound
    \/ SsTemplateNotFound
    \/ SsUnsupportedFormat
    \/ SsTemplateNoClosing
    \/ SsDryRun
    \/ SsCreate

SpecSession == InitSession /\ [][NextSession]_vars

InitGrid ==
    GridInit /\ BeatsParked /\ MeterParked /\ ChromaParked /\ NoveltyParked
    /\ CacheParked /\ PipelineParked /\ BeatRefParked /\ ManifestParked
    /\ IngestParked /\ AcquireParked /\ OrderParked /\ SessionParked /\ HistoryParked

NextGrid ==
    \/ GrStft
    \/ GrBase
    \/ GrStore
    \/ GrEnergy
    \/ GrReturn
    \/ GrCell

SpecGrid == InitGrid /\ [][NextGrid]_vars

InitHistory ==
    HistoryInit /\ BeatsParked /\ MeterParked /\ ChromaParked /\ NoveltyParked
    /\ CacheParked /\ PipelineParked /\ BeatRefParked /\ ManifestParked
    /\ IngestParked /\ AcquireParked /\ OrderParked /\ SessionParked /\ GridParked

NextHistory ==
    \/ RmSaveRpp
    \/ RmNotFound
    \/ RmNewFile
    \/ RmStartFresh
    \/ RmMismatch
    \/ RmUnchanged
    \/ RmPrepend

SpecHistory == InitHistory /\ [][NextHistory]_vars

\* ------------------------------------------------- claims on the beat tracker
\* the maximum of a non-empty set of integers
SetMax(S) == CHOOSE x \in S : \A y \in S : y <= x

\* max over m < nn of D[m] + penalty[nn - m], over the real frames m = 1..nn-1
BestPredecessorScore(nn) == SetMax({D[m] + penalty[nn - m] : m \in 1..(nn - 1)})

\* C1: for every index that has an earlier index, the forward pass sets
\* D[n] = novelty[n] + max(0, max over m<n of (D[m] + penalty[n-m])) and P[n] to a
\* maximising predecessor, or to "none" (0) when the unconstrained maximum is <= 0.
C1_ForwardPass ==
    bt_pc \in {"forward", "backtrack", "done"} =>
        \A nn \in 2..(n - 1) :
            LET best == BestPredecessorScore(nn)
            IN /\ D[nn] = novelty[nn] + (IF best > 0 THEN best ELSE 0)
               /\ IF best <= 0
                  THEN P[nn] = 0
                  ELSE /\ P[nn] \in 1..(nn - 1)
                       /\ D[P[nn]] + penalty[nn - P[nn]] = best

\* a finished run with a frame that has a real predecessor, a frame whose best
\* predecessor scores exactly 0 and a frame whose best predecessor scores below 0
C1_Witness ==
    /\ bt_pc = "done"
    /\ \E a, b, c \in 2..ArrLen(bt_input) :
          /\ P[a] # 0
          /\ BestPredecessorScore(b) = 0 /\ P[b] = 0
          /\ BestPredecessorScore(c) < 0 /\ P[c] = 0

\* C2: the returned beat sequence is strictly increasing, every entry is a frame
\* index 0 <= index < N, and every beat time run_beats writes lies within
\* [0, duration of the curve].
C2_BeatsInRange ==
    /\ bt_pc = "done" =>
          /\ \A i, j \in 1..Len(bt_result) : i < j => bt_result[i] < bt_result[j]
          /\ \A j \in 1..Len(bt_result) :
                bt_result[j] >= 0 /\ bt_result[j] < ArrLen(bt_input)
    /\ rb_item = "success" =>
          \A j \in 1..Len(rb_written) :
              /\ rb_written[j] >= 0
              /\ rb_written[j] <= (ArrLen(bt_input) * 1000) \div FS_NOV

\* a curve that is a unit impulse at offset, offset + period, ... and 0 elsewhere
IsImpulseTrain(a, period, offset) ==
    /\ offset < ArrLen(a)
    /\ \A i \in DOMAIN a : a[i] = (IF i % period = offset THEN 1000 ELSE 0)

\* the indices of the impulses, ascending
ImpulseIndices(len, period, offset) ==
    [j \in 1..(((len - 1 - offset) \div period) + 1) |-> offset + (j - 1) * period]

\* C3: on a curve of unit impulses every P-th sample, with beat_ref = P, the
\* returned beats are exactly the impulses, consecutive beats P samples apart.
C3_RecoversPeriod ==
    bt_pc = "done" =>
        \A offset \in 0..(beat_ref - 1) :
            IsImpulseTrain(bt_input, beat_ref, offset) =>
                bt_result = ImpulseIndices(ArrLen(bt_input), beat_ref, offset)

\* a finished run on an impulse train of period >= 2 with at least three impulses
C3_Witness ==
    /\ bt_pc = "done"
    /\ beat_ref >= 2
    /\ IsImpulseTrain(bt_input, beat_ref, 0)
    /\ Len(bt_result) >= 3

\* C4: a curve shorter than 2 samples yields an empty beat sequence.
C4_ShortCurveEmpty ==
    ArrLen(bt_input) < 2 =>
        /\ bt_pc # "raised"
        /\ bt_pc = "done" => bt_result = <<>>

\* --------------------------------------- claims on the meter labeller
\* a is the index of a beat nearest the head-in time
IsNearest(b, t0, a) ==
    /\ a \in DOMAIN b
    /\ \A j \in DOMAIN b : Abs(b[a] - t0) <= Abs(b[j] - t0)

\* q is the floor of kk / bpb
IsFloorOf(q, kk, bpb) == q * bpb <= kk /\ kk < (q + 1) * bpb

\* C5: every beat i is labelled bar = 1 + floor((i - i0)/B) and
\* beat = 1 + ((i - i0) mod B), i0 the index of the beat nearest the head-in
\* time; the anchor is beat 1 of its bar and no beat before the anchor has a bar
\* number above the anchor's.
C5_LabelFormula ==
    mt_pc = "done" =>
        \E a \in DOMAIN beat_times :
            /\ IsNearest(beat_times, head_in, a)
            /\ \A i \in DOMAIN beat_times :
                  LET rec == labels[i + 1]
                  IN /\ IsFloorOf(rec[2] - 1, i - a, beats_per_bar)
                     /\ rec[3] - 1 = (i - a) - (rec[2] - 1) * beats_per_bar
            /\ labels[a + 1][3] = 1
            /\ \A i \in DOMAIN beat_times : i < a => labels[i + 1][2] <= labels[a + 1][2]

\* a finished labelling with B >= 2, two beats before the anchor and one after
C5_Witness ==
    /\ mt_pc = "done"
    /\ beats_per_bar >= 2
    /\ i0 >= 2
    /\ ArrLen(beat_times) >= i0 + 2

\* one record per beat, carrying the beat's time, with beat_number cycling 1..B
OneRecordPerBeatCycling ==
    /\ Len(labels) = ArrLen(beat_times)
    /\ \A i \in 1..Len(labels) :
          /\ labels[i][1] = beat_times[i - 1]
          /\ labels[i][3] \in 1..beats_per_bar
    /\ \A i \in 1..(Len(labels) - 1) :
          labels[i + 1][3] = (IF labels[i][3] = beats_per_bar THEN 1 ELSE labels[i][3] + 1)

\* C6 (as stated): one record per beat, bar_number and beat_number both >= 1 in
\* every record, beat_number cycling through 1..B over consecutive beats.
C6_PositiveLabels ==
    mt_pc = "done" =>
        /\ OneRecordPerBeatCycling
        /\ \A i \in 1..Len(labels) : labels[i][2] >= 1

\* C6 (amended): one record per beat, beat_number >= 1 cycling through 1..B;
\* bar_number is >= 1 for the anchor beat and every later beat and <= 0 for every
\* beat before the anchor.
C6_LabelsAnchored ==
    mt_pc = "done" =>
        /\ OneRecordPerBeatCycling
        /\ \E a \in DOMAIN beat_times :
              /\ IsNearest(beat_times, head_in, a)
              /\ \A i \in DOMAIN beat_times :
                    IF i >= a THEN labels[i + 1][2] >= 1 ELSE labels[i + 1][2] <= 0

\* a finished labelling with more than a full bar before the anchor and a beat after it
C6_Witness ==
    /\ mt_pc = "done"
    /\ beats_per_bar = 2
    /\ ArrLen(beat_times) >= 5
    /\ i0 = 3

\* no candidate B has both a downbeat and a non-downbeat among the beats
NoValidCandidate ==
    \E a \in DOMAIN beat_times :
        /\ IsNearest(beat_times, head_in, a)
        /\ \A c \in {2, 3, 4} :
              LET onGrid(i) == \E q \in (-MaxBeatTime)..MaxBeatTime : i - a = q * c
              IN ~(/\ \E i \in DOMAIN beat_times : onGrid(i)
                   /\ \E j \in DOMAIN beat_times : ~onGrid(j))

\* C7: when no candidate B has both downbeat and non-downbeat beats,
\* estimate_beats_per_bar returns no beats-per-bar value.
C7_NoSilentFallback == ~(est_returned # 0 /\ NoValidCandidate)

\* ------------------------------------ claims on the metric chroma aggregator
\* the number of subdivision bins between the padded beat boundaries: 4 for a
\* beat whose local tempo 60/duration is at or below the threshold, else 2
RECURSIVE ExpectedBinCountFrom(_)
ExpectedBinCountFrom(i) ==
    IF i >= ArrLen(cc_beat_times) - 1 THEN 0
    ELSE (IF 60 * SampleRate <= bpm_threshold * (cc_beat_times[i + 1] - cc_beat_times[i])
          THEN 4 ELSE 2) + ExpectedBinCountFrom(i + 1)

\* C8: the call is rejected whenever a bin maps to fewer than min_frames_per_bin
\* frames or the boundary frames do not strictly increase; no bin is clamped,
\* merged or dropped, so a returned chromagram has one column per subdivision
\* bin and every bin covers at least min_frames_per_bin frames; a rejected call
\* returns nothing.
C8_RejectsShortBins ==
    /\ cc_pc \in {"aggregate", "weighted", "done"} =>
          /\ min_frames_per_bin >= 1
          /\ ArrLen(boundary_frames) - 1 = ExpectedBinCountFrom(0)
          /\ \A j \in 0..(ArrLen(boundary_frames) - 2) :
                /\ boundary_frames[j + 1] > boundary_frames[j]
                /\ boundary_frames[j + 1] - boundary_frames[j] >= min_frames_per_bin
    /\ cc_pc = "done" =>
          /\ Len(cc_result) = ExpectedBinCountFrom(0)
          /\ \A j \in 1..Len(cc_result) :
                /\ cc_result[j][3] >= min_frames_per_bin
                /\ cc_result[j][3] = boundary_frames[j] - boundary_frames[j - 1]
    /\ cc_pc # "done" => cc_result = <<>>

\* a chromagram returned with min_frames_per_bin = 2
C8_Witness ==
    /\ cc_pc = "done"
    /\ min_frames_per_bin = 2
    /\ Len(cc_result) >= 2

\* the weight sum of bin j (0-based)
BinWeightSum(j) ==
    SumOver(frame_weights,
            SliceFrames(boundary_frames[j], boundary_frames[j + 1], ArrLen(C)))

\* C9: in weighted aggregation every bin value computed was divided by a weight
\* sum > 0, and a call in which some bin's weight sum is not > 0 fails instead of
\* returning.
C9_WeightSumsPositive ==
    accent_mode = "weighted" =>
        /\ \A j \in 1..Len(C_metric) : C_metric[j][2] > 0
        /\ cc_pc = "done" =>
              /\ \A j \in 0..(ArrLen(boundary_frames) - 2) : BinWeightSum(j) > 0
              /\ \A j \in 1..Len(cc_result) : cc_result[j][2] = BinWeightSum(j - 1)
        /\ (cc_pc = "raised" /\ cc_error = "zero_weight") => cc_result = <<>>

\* a weighted chromagram returned although librosa's raw weights were all zero:
\* the floor of 1e-10 keeps every weight sum positive
C9_Witness ==
    /\ cc_pc = "done"
    /\ accent_mode = "weighted"
    /\ \A f \in DOMAIN raw_weights : raw_weights[f] = 0
    /\ Len(cc_result) >= 2

\* ---------------------------------------------- claims on the novelty curves
\* C10: every sample of the returned curve is non-negative; when normalisation is
\* on its maximum is <= 1 + epsilon (epsilon = 1/1000); a curve that is all zero
\* before normalisation is returned all zero and was never divided by its maximum.
C10_NonNegativeNormalised ==
    /\ nv_pc = "resample" => ((\A i \in DOMAIN nv_vals : nv_vals[i] = 0) => ~nv_divided)
    /\ nv_pc = "done" =>
          /\ \A i \in DOMAIN nv_vals : nv_vals[i] >= 0
          /\ nv_norm => \A i \in DOMAIN nv_vals : 1000 * nv_vals[i] <= 1001 * nv_den
          /\ (nv_norm /\ ~nv_divided) => \A i \in DOMAIN nv_vals : nv_vals[i] = 0


\* ------------------------------------------------ claims on the session caches
\* two curves are the same array of rationals
CurveEq(a, b) ==
    /\ DOMAIN a.vals = DOMAIN b.vals
    /\ \A i \in DOMAIN a.vals : a.vals[i] * b.den = b.vals[i] * a.den

\* two cache entries (nov, nov_100) hold the same curves
EntryEq(a, b) == CurveEq(a.nov, b.nov) /\ CurveEq(a.nov_100, b.nov_100)

\* two autocorrelation matrices hold the same rationals
MatrixEq(a, b) ==
    /\ DOMAIN a = DOMAIN b
    /\ \A lag \in DOMAIN a :
        /\ DOMAIN a[lag] = DOMAIN b[lag]
        /\ \A fr \in DOMAIN a[lag] : a[lag][fr][1] * b[lag][fr][2] = b[lag][fr][1] * a[lag][fr][2]

\* C11: in every step each entry of the novelty cache stays in the cache with
\* the value it has, and a get_novelty_for_method call whose key is already in
\* the cache returns exactly the stored entry and computes nothing.
C11_NoveltyCacheStable ==
    [][/\ \A key \in DOMAIN novelty_cache :
            /\ key \in DOMAIN novelty_cache'
            /\ novelty_cache'[key] = novelty_cache[key]
       /\ (wc_call'.fn = "get_novelty_for_method" /\ wc_call'.key \in DOMAIN novelty_cache)
            => (wc_hit' /\ ~wc_computed' /\ wc_ret' = novelty_cache[wc_call'.key])]_vars

\* C11 witness: a lookup hits a key that an earlier get_novelty_for_method call
\* (not the eager grid) computed and stored
C11_Witness ==
    /\ wc_call.fn = "get_novelty_for_method"
    /\ wc_hit
    /\ wc_call.key \notin NoveltyGridKeys
    /\ wc_ret = novelty_cache[wc_call.key]

\* C12: the value returned on a cache hit equals what a direct computation
\* with the call's own arguments returns, for get_novelty_for_method and for
\* get_tempogram_for_methods.
C12_HitEqualsDirect ==
    /\ (wc_call.fn = "get_novelty_for_method" /\ wc_hit)
        => EntryEq(wc_ret, ComputeEntry(wc_x, wc_call.method, wc_call.H, wc_call.M))
    /\ (wc_call.fn = "get_tempogram_for_methods" /\ wc_hit)
        => MatrixEq(wc_ret,
                    LocalAutocorrelation(novelty_cache[wc_call.novelty_key].nov_100.vals,
                                         wc_call.window, 1, wc_call.norm_sum))
\* ------------------------------------------------ claims on the batch stages
\* the call names a type that is not one of the stage's known types
UnknownType == pl_pc # "off" /\ pl_ntype \notin PlTypes

\* C13: a call with an unknown type name never loads, computes or saves
\* anything; run_novelty and run_tempogram go from the call straight to a
\* returned result with success false and total 0, and _compute_novelty goes
\* from the call straight to a raised error.
C13_UnknownTypeRejected ==
    UnknownType =>
        /\ pl_reads = 0 /\ pl_computes = 0 /\ pl_writes = 0
        /\ pl_succeeded = 0 /\ pl_failed = 0
        /\ pl_fn = "_compute_novelty" => pl_pc \in {"call", "raised"}
        /\ pl_fn # "_compute_novelty" =>
            /\ pl_pc \in {"call", "returned"}
            /\ pl_pc = "returned" => (~pl_result.success /\ pl_result.total = 0)

\* C13 witness: run_novelty or run_tempogram has returned from a call with an
\* unknown type and an existing input file
C13_Witness ==
    /\ UnknownType
    /\ pl_fn \in {"run_novelty", "run_tempogram"}
    /\ pl_pc = "returned"
    /\ \E i \in DOMAIN pl_files : pl_files[i]

\* the call has a non-positive N or H, or a tempo range with min >= max
InvalidParameters ==
    /\ pl_pc # "off"
    /\ pl_ntype \in PlTypes
    /\ \/ pl_N <= 0
       \/ pl_H <= 0
       \/ pl_fn = "run_tempogram" /\ pl_theta[1] >= pl_theta[2]

\* C14: with a non-positive N or H or a tempo range with min >= max,
\* run_novelty and run_tempogram never load, compute or save anything and a
\* result they return for given input files reports failure with no file
\* processed, and the compute dispatcher never returns a curve.
C14_InvalidParametersRejected ==
    InvalidParameters =>
        /\ pl_fn = "_compute_novelty" => pl_pc # "returned"
        /\ pl_fn # "_compute_novelty" =>
            /\ pl_reads = 0 /\ pl_computes = 0 /\ pl_writes = 0
            /\ (pl_pc = "returned" /\ Len(pl_files) > 0) =>
                    (~pl_result.success /\ pl_result.total = 0)
\* ------------------------------------ further claims on the beat tracker
\* an empty, one-sample or all-zero novelty curve
DegenerateCurve == ArrLen(bt_input) < 2 \/ \A i \in DOMAIN bt_input : bt_input[i] = 0

\* C15: on an empty, too short or all-zero novelty curve run_beats never
\* counts the item as a success and never writes beat times; once the item is
\* settled it is a failed item.
C15_DegenerateFails ==
    (bt_pc # "off" /\ DegenerateCurve) =>
        /\ rb_item \in {"pending", "failed"}
        /\ rb_written = <<>>

\* C17: whenever the forward pass records a predecessor P[n], no lower index
\* reaches the same score D[m] + penalty[n - m], and the index backtracking
\* starts from is the lowest index holding the maximum of D.
C17_TiesLowestIndex ==
    bt_pc \in {"forward", "backtrack", "done"} =>
        /\ \A nn \in 2..(n - 1) :
              P[nn] # 0 =>
                  /\ \A m \in 1..(nn - 1) :
                        D[m] + penalty[nn - m] <= D[P[nn]] + penalty[nn - P[nn]]
                  /\ \A m \in 1..(P[nn] - 1) :
                        D[m] + penalty[nn - m] < D[P[nn]] + penalty[nn - P[nn]]
        /\ bt_pc \in {"backtrack", "done"} =>
              /\ \A m \in DOMAIN D : D[m] <= D[B[0]]
              /\ \A m \in 0..(B[0] - 1) : D[m] < D[B[0]]

\* C17 witness: a finished run in which two predecessors tied for the best
\* score of a step and two indices tie for the maximum of D
C17_Witness ==
    /\ bt_pc = "done"
    /\ \E nn \in 2..ArrLen(bt_input) :
          /\ P[nn] # 0
          /\ \E m \in (P[nn] + 1)..(nn - 1) :
                D[m] + penalty[nn - m] = D[P[nn]] + penalty[nn - P[nn]]
    /\ \E m \in DOMAIN D : m > B[0] /\ D[m] = D[B[0]]
\* ------------------------------------ claims on the reference tempo
\* the BPM the tempogram's own tempo axis gives to the row of maximum
\* time-averaged magnitude of the (underlying Fourier) tempogram
OwnAxisTempo == Arange(tg_theta[1], tg_theta[2])[NpArgmax(TempoProfile(tg_fourier))]

\* C16: the reference tempo run_beats derives is the BPM of the tempogram's own
\* tempo axis at the row of maximum time-averaged magnitude (of the underlying
\* Fourier tempogram for a cyclic one), and the reference beat period is
\* FS_NOV * 60 / that BPM, rounded.
C16_ReferenceTempo ==
    /\ rf_pc \in {"beat_ref", "done"} => rf_tempo_bpm = OwnAxisTempo
    /\ rf_pc = "done" => rf_beat_ref = RoundHalfEven(FS_NOV * 60, OwnAxisTempo)
\* ------------------------------------ claims on the subdivision boundaries
\* the boundary times (quarter samples) the claim expects between the beat
\* boundaries bt: each interval cut into 4 equal parts when 60 / duration is at
\* or below the threshold, into 2 otherwise
ExpectedBoundaryTimes(bt, thr) ==
    UNION {LET dur == bt[i + 1] - bt[i]
               parts == IF 60 * SampleRate <= thr * dur THEN 4 ELSE 2
           IN {4 * bt[i] + kk * ((4 * dur) \div parts) : kk \in 0..parts} :
           i \in 0..(ArrLen(bt) - 2)}

\* C18: once the beat boundaries are known, the subdivision boundaries built
\* from them are strictly increasing, start at the first and end at the last
\* beat boundary, and are exactly the points that cut every beat interval into
\* 4 equal parts when its local tempo is at or below bpm_threshold and into 2
\* equal parts otherwise.
C18_SubdivisionBoundaries ==
    ArrLen(cc_beat_times) >= 2 =>
        LET bt == cc_beat_times
            boundary_times == BuildSubdivisionBoundaries(bt, SampleRate, bpm_threshold)
        IN /\ StrictlyIncreasing(boundary_times)
           /\ boundary_times[0] = 4 * bt[0]
           /\ boundary_times[ArrLen(boundary_times) - 1] = 4 * bt[ArrLen(bt) - 1]
           /\ {boundary_times[j] : j \in DOMAIN boundary_times}
                  = ExpectedBoundaryTimes(bt, bpm_threshold)

\* C18 witness: the boundaries have been built (the bin checks have run) for
\* beat intervals of which one has a local tempo exactly at the threshold and
\* one a tempo above it
C18_Witness ==
    /\ ArrLen(cc_beat_times) >= 3
    /\ cc_pc \in {"aggregate", "raised"}
    /\ ArrLen(boundary_frames) >= 2
    /\ \E i \in 0..(ArrLen(cc_beat_times) - 2) :
          60 * SampleRate = bpm_threshold * (cc_beat_times[i + 1] - cc_beat_times[i])
    /\ \E i \in 0..(ArrLen(cc_beat_times) - 2) :
          60 * SampleRate > bpm_threshold * (cc_beat_times[i + 1] - cc_beat_times[i])
\* ------------------------------------ claims on the resampled length
\* C19: a curve returned by a call with a target rate R has a length within
\* one sample of floor(duration * R), the duration being the native curve
\* length over the native feature rate.
C19_ResampledLength ==
    (nv_pc = "done" /\ Fs_target # 0) =>
        LET expected == (nv_native_len * Fs_target) \div Fs_feature
        IN /\ ArrLen(nv_vals) >= expected - 1
           /\ ArrLen(nv_vals) <= expected + 1
\* ---------------------------------------- claims on the manifest's uniqueness
\* C20: after any sequence of append_manifest_row calls no two rows of the
\* manifest share a non-empty value in a field the profile declares unique; an
\* append that would create such a duplicate raises ValueError, and a call that
\* raises leaves the manifest file as it was.
C20_ManifestUnique ==
    LET rows == read_manifest(mf_exists, mf_rows)
    IN /\ \A f \in UniqueFields(mf_profile) :
             \A i \in 1..Len(rows) : \A j \in (i + 1)..Len(rows) :
                 rows[i][f] # <<>> => rows[i][f] # rows[j][f]
       /\ mf_dup => mf_outcome = "ValueError"
       /\ mf_outcome = "ValueError" => <<mf_exists, mf_rows>> = mf_before
\* ----------------------------------------------------- claims on the ingest
\* the distinct acq_sha256 values of the raw manifest
ManifestAcqSha256 == {raw_manifest[i].acq_sha256 : i \in 1..Len(raw_manifest)}

\* C21: a run of ingest (not a dry run) that follows a completed run over the
\* same acquisition directory ingests nothing (ingested = 0), and every run
\* counts each bundle whose acq_sha256 is already ingested as skipped; at any
\* time the raw manifest holds one row, and the raw directory one audio file,
\* per distinct acq_sha256.
C21_IngestIdempotent ==
    /\ (ig_pc = "loop" /\ ~ig_dry_run /\ ig_real_runs >= 1) => ingested_count = 0
    /\ ig_pc = "loop" =>
          \A j \in 1..Len(ig_outcomes) :
              (ig_bundles[j].has_id /\ AcqSha256(ig_bundles[j]) \in ig_start_shas)
                  => ig_outcomes[j] = "skipped"
    /\ Len(raw_manifest) = Cardinality(ManifestAcqSha256)
    /\ Cardinality(DOMAIN raw_files) = Cardinality(ManifestAcqSha256)

\* a raw file has exactly one manifest row, naming it, with its checksum as
\* sha256 and as acq_sha256
FileHasItsRow(file_id) ==
    /\ Cardinality({i \in 1..Len(raw_manifest) : raw_manifest[i].file_id = file_id}) = 1
    /\ \A i \in 1..Len(raw_manifest) :
          raw_manifest[i].file_id = file_id =>
              /\ raw_manifest[i].sha256 = raw_files[file_id]
              /\ raw_manifest[i].sha256 = raw_manifest[i].acq_sha256

\* C29: after any ingest run, failed bundles included, every audio file of the
\* raw directory has exactly one manifest row naming it whose sha256 equals its
\* acq_sha256, and a bundle that failed left the raw directory and the raw
\* manifest as they were.
C29_RawAgreesWithManifest ==
    /\ [](\A file_id \in DOMAIN raw_files : FileHasItsRow(file_id))
    /\ [][failed_count' > failed_count =>
            (raw_files' = raw_files /\ raw_manifest' = raw_manifest)]_vars
\* ---------------------------------------------------- claims on the acquire
\* C22: a run of acquire that follows a successful run over the unchanged
\* acquisition directory adds no row (rows_added = 0) and succeeds, and the
\* acquisition manifest never holds two rows with the same rel_path and the
\* same sha256.
C22_AcquireIdempotent ==
    LET rows == read_manifest(aq_exists, aq_rows)
    IN /\ (aq_pc = "loop" /\ aq_rerun) => (aq_rows_added = 0 /\ aq_errors = 0)
       /\ \A i \in 1..Len(rows) : \A j \in (i + 1)..Len(rows) :
             ~(rows[i].rel_path = rows[j].rel_path /\ rows[i].sha256 = rows[j].sha256)
\* -------------------------------------------- claims on the marker ordering
CanonicalHeadNames == {HEAD_IN_START, HEAD_IN_END, HEAD_OUT_START, HEAD_OUT_END}

CanonicalLickNames == {"LICK01_START", "LICK01_END", "LICK02_START", "LICK02_END"}

\* the place of a canonical head name in the fixed order
HeadPlace(name) ==
    CHOOSE p \in 1..4 : <<HEAD_IN_START, HEAD_IN_END, HEAD_OUT_START, HEAD_OUT_END>>[p] = name

\* the lick number of a canonical lick name, and whether it is the END
LickNumber(name) == IF name \in {"LICK01_START", "LICK01_END"} THEN 1 ELSE 2
LickIsEnd(name) == name \in {"LICK01_END", "LICK02_END"}

SessionExisted ==
    /\ ss_outcome \notin {"none", "off"}
    /\ ss_before["audio_file"] # Absent
    /\ ss_before["DEFAULT_TEMPLATE"] # Absent
    /\ ss_before["session_path"] # Absent

\* C24: when a session file for the audio file already exists in the markers
\* directory, create_markers_session raises FileExistsError and leaves the
\* existing file's content unchanged.
C24_RefusesOverwrite ==
    SessionExisted =>
        /\ ss_outcome = "FileExistsError"
        /\ ss_files["session_path"] = ss_before["session_path"]

\* C25: a call with dry_run=True creates no session file and leaves every
\* existing file, an existing session file included, as it was.
C25_DryRunLeavesFiles ==
    (ss_outcome \notin {"none", "off"} /\ ss_dry_run) => ss_files = ss_before

\* ------------------------------------------------ claims on the novelty grid
\* the set of keys _novelty_grid_keys lists
GridKeySet == {novelty_grid_keys[i] : i \in 1..Len(novelty_grid_keys)}

\* the number of variants: per hop, one energy and one spectral and complex
\* variant per gamma (and M), one phase variant per M; 8 * (7 + 49 + 7 + 49)
\* = 896 for the grids of widget_common.py
GridSize ==
    Cardinality(HOP_VALUES)
    * (Cardinality(GAMMA_VALUES) + Cardinality(LOCAL_M_VALUES)
       + 2 * Cardinality(GAMMA_VALUES) * Cardinality(LOCAL_M_VALUES))

\* C26: every value stored for a key depends only on the signal and the key,
\* so the cells computed in any order give the cache of the sequential sweep,
\* which has exactly one entry for each key _novelty_grid_keys lists.
C26_GridCellsIndependent ==
    /\ \A key \in DOMAIN gr_cache : gr_cache[key] = CellValue(gr_x, key)
    /\ gr_returned =>
          /\ DOMAIN gr_cache = GridKeySet
          /\ Len(novelty_grid_keys) = Cardinality(GridKeySet)
          /\ Cardinality(DOMAIN gr_cache) = GridSize
    /\ (gr_returned /\ DOMAIN gr_par = GridKeySet) => gr_par = gr_cache

C26_Witness ==
    /\ gr_returned
    /\ DOMAIN gr_par = GridKeySet
    /\ \E k1, k2 \in DOMAIN gr_cache : k1[1] = "phase" /\ k2[1] = "complex"

\* C30: during the precompute the STFT is computed at most once per distinct
\* (N, H) pair, shared by every STFT-based method, gamma and M.
C30_StftOncePerPair ==
    \A pair \in DOMAIN gr_stft_count : gr_stft_count[pair] <= 1

\* ------------------------------------ claims on the backpointers
RECURSIVE StepsToNone(_, _, _)
\* the number of backpointers followed from index s until P is 0, -1 when
\* more than fuel are needed
StepsToNone(Pv, s, fuel) ==
    IF Pv[s] = 0 THEN 0
    ELSE IF fuel = 0 THEN -1
    ELSE LET r == StepsToNone(Pv, Pv[s], fuel - 1)
         IN IF r < 0 THEN -1 ELSE r + 1

\* C27: the "no predecessor" marker 0 is never the index of a real
\* predecessor: a backpointer that is not the marker is a frame index from 1
\* to n - 1, and the marker is stored only when no earlier frame, the first one
\* included, scores above 0. Hence following backpointers from any index
\* reaches the marker in at most N steps, and so does the backtracking.
C27_NoPredecessorMarker ==
    bt_pc \in {"forward", "backtrack", "done"} =>
        /\ \A nn \in 1..(n - 1) :
              /\ P[nn] # 0 => (P[nn] >= 1 /\ P[nn] < nn)
              /\ P[nn] = 0 => \A m \in 1..(nn - 1) : D[m] + penalty[nn - m] <= 0
        /\ P[0] = 0
        /\ \A s \in 0..(n - 1) :
              StepsToNone(P, s, ArrLen(bt_input)) \in 0..ArrLen(bt_input)
        /\ bt_pc \in {"backtrack", "done"} =>
              /\ k < ArrLen(bt_input)
              /\ \A j \in 1..k : B[j] = P[B[j - 1]] /\ B[j] >= 1 /\ B[j] < B[j - 1]
              /\ bt_pc = "done" => P[B[k]] = 0

\* C27 witness: a finished run in which the first frame is the predecessor of
\* a later frame, another frame has no predecessor and backtracking followed
\* at least two backpointers down to the first frame
C27_Witness ==
    /\ bt_pc = "done"
    /\ \E a, b \in 2..ArrLen(bt_input) : P[a] = 1 /\ P[b] = 0
    /\ k >= 2
    /\ B[k] = 1

\* ------------------------------------------------ claims on read_markers
\* the marker lists a JSON file holds, newest first
History(json) ==
    IF json.kind \in {"old", "entries"}
    THEN [i \in 1..Len(json.entries) |-> json.entries[i].markers]
    ELSE <<>>

\* C28: a read_markers call that returns either leaves the JSON file and the
\* project files untouched, exactly when the ordered markers equal those of
\* the most recent entry, or prepends exactly one entry in front of all
\* earlier entries, which are neither dropped nor altered, also when the file
\* references another rpp_file.
C28_HistoryAppendOnly ==
    rm_outcome = "returned" =>
        LET unchanged == /\ History(rm_before_json) # <<>>
                         /\ markers_are_equal(rm_new, History(rm_before_json)[1])
        IN IF unchanged
           THEN rm_json = rm_before_json /\ rm_rpp = rm_before_rpp
           ELSE /\ rm_json.kind = "entries"
                /\ History(rm_json) = <<rm_new>> \o History(rm_before_json)
                /\ rm_before_json.kind = "entries" =>
                      Tail(rm_json.entries) = rm_before_json.entries
====
